---------------------------- MODULE Spec2Model ----------------------------
(***************************************************************************)
(* A model of python-backend/main.py: the sentiment analyzer, the tiered  *)
(* scraper (video info and comments), the SQLite comment store, the       *)
(* analytics aggregation and the WebSocket monitoring server.             *)
(*                                                                         *)
(* Conventions.                                                            *)
(*  - A Python call that may raise is modelled by an outcome record        *)
(*    [raised, exc, value]: Ok(v) or Raise(e).  try/except is a test of    *)
(*    .raised, so an uncaught exception is visible in the outcome.         *)
(*  - Floats are modelled as exact rationals <<num, den>> (den > 0).       *)
(*  - A text is a reference into a fixed universe of texts; Tokens(t) is   *)
(*    its sequence of word and punctuation tokens.                         *)
(*  - Every random.* draw of one call is taken from one random source,     *)
(*    chosen from a small set of sources (Rand).                           *)
(***************************************************************************)
EXTENDS Integers, Sequences, FiniteSets, Bags, TLC

VARIABLES
    cfg,               \* capability flags (HAS_*), api_key, polarity oracle
    db,                \* rows of the comments table, in rowid order
    clients,           \* YouTubeAnalyticsServer.clients
    current_video_id,  \* YouTubeAnalyticsServer.current_video_id
    is_monitoring,     \* YouTubeAnalyticsServer.is_monitoring
    pc,                \* position of the start_monitoring task
    comments,          \* start_monitoring local: the batch of this cycle
    analytics,         \* start_monitoring local: the snapshot of this cycle
    gather,            \* the asyncio.gather in flight inside broadcast_update
    sockets,           \* per websocket: the state of its connection
    cycle,             \* history: what the monitoring loop and its current cycle have done
    log,               \* history: the broadcast_update calls made so far
    call,              \* single-shot entry points: the call in progress
    ret,               \* single-shot entry points: its outcome
    writes             \* history: the single-shot save_comments_to_db calls made

vars == << cfg, db, clients, current_video_id, is_monitoring, pc, comments,
           analytics, gather, sockets, cycle, log, call, ret, writes >>

server_vars == << clients, current_video_id, is_monitoring, pc, comments,
                  analytics, gather, sockets, cycle, log >>

-----------------------------------------------------------------------------
(* Bounds of the model.                                                    *)

\* random sources 0..MaxSeed
MaxSeed == 2
\* max_comments arguments tried: 0..MaxSmall and NumCurated-1..NumCurated+MaxExtra
MaxSmall == 3
MaxExtra == 2
\* comment threads per page of an API response
MaxThreads == 2
\* replies per comment thread of an API response
MaxReplies == 1
\* pages of an API response
MaxPages == 2
\* broadcast_update calls recorded in log
MaxLog == 5
\* single-shot save_comments_to_db calls in one behaviour
MaxSaves == 2
\* websockets that connect in one behaviour
MaxSockets == 2

-----------------------------------------------------------------------------
(* Outcomes of calls, rationals, sequences.                                *)

Ok(v) == [raised |-> FALSE, exc |-> "", value |-> v]

Raise(e) == [raised |-> TRUE, exc |-> e, value |-> <<>>]

Min(a, b) == IF a <= b THEN a ELSE b

Max(a, b) == IF a >= b THEN a ELSE b

Abs(n) == IF n < 0 THEN -n ELSE n

Rat(n, d) == << n, d >>

RLt(a, b) == a[1] * b[2] < b[1] * a[2]

RLe(a, b) == a[1] * b[2] <= b[1] * a[2]

REq(a, b) == a[1] * b[2] = b[1] * a[2]

RAdd(a, b) == << a[1] * b[2] + b[1] * a[2], a[2] * b[2] >>

RAbs(a) == << Abs(a[1]), a[2] >>

RDivInt(a, k) == << a[1], a[2] * k >>

RMulInt(a, k) == << a[1] * k, a[2] >>

\* sum(s) of integers; the sequence is summed by halves
RECURSIVE SumSeq(_)
SumSeq(s) ==
    IF Len(s) = 0 THEN 0
    ELSE IF Len(s) = 1 THEN s[1]
    ELSE SumSeq(SubSeq(s, 1, Len(s) \div 2)) + SumSeq(SubSeq(s, Len(s) \div 2 + 1, Len(s)))

\* the concatenation of the sequences of ss, by halves
RECURSIVE Concat(_)
Concat(ss) ==
    IF Len(ss) = 0 THEN <<>>
    ELSE IF Len(ss) = 1 THEN ss[1]
    ELSE Concat(SubSeq(ss, 1, Len(ss) \div 2)) \o Concat(SubSeq(ss, Len(ss) \div 2 + 1, Len(ss)))

\* Python's s[:n] for n >= 0 and for n < 0
Prefix(s, n) ==
    IF n >= 0 THEN SubSeq(s, 1, Min(n, Len(s)))
    ELSE SubSeq(s, 1, Max(0, Len(s) + n))

\* Python's s[-n:] for n > 0
Suffix(s, n) == SubSeq(s, Max(1, Len(s) - n + 1), Len(s))

Count(s, P(_)) == Cardinality({i \in DOMAIN s : P(s[i])})

\* the k-th random draw of randint(lo, hi) from random source seed
Rand(seed, k, lo, hi) ==
    IF seed = 0 THEN lo
    ELSE IF seed = 1 THEN hi
    ELSE lo + ((k * (2 * seed + 33) + 7 * seed) % (hi - lo + 1))

Seeds == 0 .. MaxSeed

-----------------------------------------------------------------------------
(* Texts.  A text is [kind, i, f]: the i-th curated comment, the i-th      *)
(* template instantiated with the fillers f, or the i-th literal text.    *)

political_comments ==
    << <<"Excellent", "analysis", "!", "This", "really", "breaks", "down", "the", "complex", "issues", "clearly", ".">>,
       <<"I", "disagree", "with", "some", "of", "the", "conclusions", "drawn", "here", ".", "More", "research", "needed", ".">>,
       <<"Thank", "you", "for", "explaining", "this", "so", "well", ".", "Very", "informative", "content", ".">>,
       <<"This", "perspective", "is", "interesting", "but", "I", "think", "there", "are", "other", "factors", "to", "consider", ".">>,
       <<"Great", "work", "!", "Your", "political", "insights", "are", "always", "spot", "on", ".">>,
       <<"I", "'", "m", "not", "convinced", "by", "this", "argument", ".", "What", "about", "the", "opposing", "viewpoint", "?">>,
       <<"This", "video", "opened", "my", "eyes", "to", "issues", "I", "hadn", "'", "t", "considered", "before", ".">>,
       <<"The", "data", "presented", "here", "seems", "incomplete", ".", "Can", "you", "provide", "sources", "?">>,
       <<"Finally", ",", "someone", "who", "explains", "politics", "without", "bias", ".", "Refreshing", "!">>,
       <<"This", "is", "exactly", "the", "kind", "of", "analysis", "we", "need", "more", "of", "in", "media", ".">>,
       <<"I", "appreciate", "the", "balanced", "approach", "to", "such", "a", "divisive", "topic", ".">>,
       <<"Some", "good", "points", ",", "but", "I", "think", "you", "'", "re", "missing", "the", "bigger", "picture", ".">>,
       <<"Your", "research", "is", "thorough", "and", "your", "presentation", "is", "clear", ".", "Well", "done", "!">>,
       <<"I", "wish", "more", "political", "commentators", "were", "as", "thoughtful", "as", "this", ".">>,
       <<"This", "analysis", "helps", "me", "understand", "the", "complexity", "of", "the", "situation", ".">>,
       <<"Great", "job", "breaking", "down", "the", "policy", "implications", "step", "by", "step", ".">>,
       <<"I", "don", "'", "t", "usually", "comment", "but", "this", "deserved", "recognition", ".", "Excellent", "work", "!">>,
       <<"This", "is", "why", "I", "subscribe", "to", "this", "channel", ".", "Quality", "content", "always", ".">>,
       <<"The", "graphics", "and", "explanations", "make", "complex", "topics", "accessible", ".", "Thank", "you", "!">>,
       <<"I", "shared", "this", "with", "my", "family", ".", "Everyone", "should", "watch", "this", "analysis", ".">>,
       <<"Looking", "forward", "to", "your", "take", "on", "the", "upcoming", "policy", "changes", ".">>,
       <<"This", "kind", "of", "informed", "discussion", "is", "what", "democracy", "needs", ".">>,
       <<"Your", "ability", "to", "remain", "objective", "while", "explaining", "is", "commendable", ".">>,
       <<"This", "video", "should", "be", "shown", "in", "political", "science", "classes", ".">>,
       <<"I", "learned", "more", "in", "these", "10", "minutes", "than", "from", "hours", "of", "news", "coverage", ".">>,
       <<"The", "research", "behind", "this", "content", "is", "evident", ".", "Keep", "up", "the", "great", "work", "!">>,
       <<"Finally", "someone", "who", "doesn", "'", "t", "just", "echo", "talking", "points", ".", "Original", "thinking", "!">>,
       <<"This", "analysis", "will", "help", "me", "make", "more", "informed", "decisions", ".", "Thank", "you", ".">>,
       <<"Your", "channel", "has", "become", "my", "go", "-", "to", "source", "for", "political", "analysis", ".">>,
       <<"The", "way", "you", "connect", "different", "policy", "areas", "is", "brilliant", ".">> >>

professions == <<<<"teacher">>, <<"student">>, <<"researcher">>, <<"journalist">>, <<"analyst">>, <<"citizen">>, <<"voter">>, <<"activist">>>>

fields == <<<<"policy">>, <<"government">>, <<"academia">>, <<"journalism">>, <<"research">>, <<"public", "service">>>>

sentiments == <<<<"very", "insightful">>, <<"somewhat", "problematic">>, <<"quite", "helpful">>, <<"rather", "concerning">>, <<"extremely", "valuable">>>>

agreements == <<<<"aligns">>, <<"conflicts">>, <<"partially", "matches">>, <<"strongly", "supports">>, <<"challenges">>>>

aspects == <<<<"point">>, <<"argument">>, <<"data">>, <<"conclusion">>, <<"perspective">>, <<"analysis">>>>

topics == <<<<"policy">>, <<"governance">>, <<"democracy">>, <<"legislation">>, <<"reform">>, <<"leadership">>>>

evaluations == <<<<"spot", "on">>, <<"questionable">>, <<"well", "researched">>, <<"needs", "more", "context">>, <<"brilliant">>>>

qualities == <<<<"provides", "excellent">>, <<"offers", "decent">>, <<"gives", "poor">>, <<"delivers", "outstanding">>, <<"presents", "adequate">>>>

groups == <<<<"young", "voters">>, <<"working", "families">>, <<"small", "businesses">>, <<"rural", "communities">>, <<"urban", "areas">>>>

importances == <<<<"very", "important">>, <<"often", "overlooked">>, <<"critical", "to", "address">>, <<"worth", "considering">>>>

\* comment_templates[k] instantiated with the fillers f (str.format)
comment_templates(k, f) ==
    CASE k = 1 -> <<"As", "a">> \o professions[f[1]] \o <<",", "I", "find", "this", "analysis">>
                  \o sentiments[f[2]] \o <<".">>
      [] k = 2 -> <<"From", "my", "experience", "in">> \o fields[f[3]] \o <<",", "this">>
                  \o agreements[f[4]] \o <<"with", "what", "I", "'", "ve", "observed", ".">>
      [] k = 3 -> <<"The">> \o aspects[f[5]] \o <<"you", "mentioned", "about">> \o topics[f[6]]
                  \o <<"is">> \o evaluations[f[7]] \o <<".">>
      [] k = 4 -> <<"I", "'", "ve", "been", "following">> \o topics[f[9]] \o <<"for", "years", "and", "this">>
                  \o qualities[f[8]] \o <<"explanation", ".">>
      [] k = 5 -> <<"What", "about", "the", "impact", "on">> \o groups[f[10]] \o <<"?", "That", "seems">>
                  \o importances[f[11]] \o <<".">>

NumTemplates == 5

\* texts of comments that come from outside (API responses, callers)
literal_texts ==
    << <<>>,
       <<"This", "is", "terrible", "and", "awful", ",", "total", "garbage">>,
       <<"Great", "video", ",", "love", "it">>,
       <<"I", "am", "so", "happy", "and", "excited">>,
       <<"What", "a", "waste", ",", "I", "hate", "this", "stupid", "take">>,
       <<"@bob", "see", "https://t.co/x", "#wow">> >>

\* texts dense in the keywords of the analyzer
keyword_texts ==
    << <<"great", "excellent", "amazing", "fantastic", "wonderful", "brilliant">>,
       <<"Great", "and", "awesome", ",", "superb", ",", "perfect", ",", "love", "it">>,
       <<"terrible", "awful", "horrible", "disgusting", "pathetic", "waste", "of", "time">>,
       <<"worst", "trash", ",", "garbage", ",", "stupid", ",", "ridiculous">>,
       <<"great", "but", "terrible">>,
       <<"lovely", "greatest", "hateful">> >>

KeywordText(i) == [kind |-> "keywords", i |-> i, f |-> <<>>]

CuratedText(i) == [kind |-> "curated", i |-> i, f |-> <<>>]

TemplateText(k, f) == [kind |-> "template", i |-> k, f |-> f]

LiteralText(i) == [kind |-> "literal", i |-> i, f |-> <<>>]

Tokens(t) ==
    CASE t.kind = "curated" -> political_comments[t.i]
      [] t.kind = "template" -> comment_templates(t.i, t.f)
      [] t.kind = "literal" -> literal_texts[t.i]
      [] t.kind = "keywords" -> keyword_texts[t.i]

-----------------------------------------------------------------------------
(* SentimentAnalyzer.                                                      *)

political_keywords ==
    [positive |-> {"great", "excellent", "amazing", "fantastic", "wonderful", "brilliant",
                   "outstanding", "perfect", "love", "awesome", "incredible", "superb"},
     negative |-> {"terrible", "awful", "horrible", "disgusting", "pathetic", "waste",
                   "stupid", "ridiculous", "hate", "worst", "trash", "garbage"},
     neutral  |-> {"okay", "fine", "average", "normal", "standard", "decent", "alright"}]

\* str.lower on the tokens of the universe of texts
LowerTable ==
    ("As" :> "as") @@ ("Can" :> "can") @@ ("Everyone" :> "everyone") @@ ("Excellent" :> "excellent")
    @@ ("Finally" :> "finally") @@ ("From" :> "from") @@ ("Great" :> "great") @@ ("I" :> "i")
    @@ ("Keep" :> "keep") @@ ("Looking" :> "looking") @@ ("More" :> "more")
    @@ ("Original" :> "original") @@ ("Quality" :> "quality") @@ ("Refreshing" :> "refreshing")
    @@ ("Some" :> "some") @@ ("Thank" :> "thank") @@ ("That" :> "that") @@ ("The" :> "the")
    @@ ("This" :> "this") @@ ("Very" :> "very") @@ ("Well" :> "well") @@ ("What" :> "what")
    @@ ("Your" :> "your")

lower(w) == IF w \in DOMAIN LowerTable THEN LowerTable[w] ELSE w

\* tokens matched by http\S+|www\S+|https\S+ and by @\w+|#\w+ (removed), and by
\* [^\w\s] (replaced by a space)
UrlTokens == {"https://t.co/x"}

MentionTokens == {"@bob", "#wow"}

PunctTokens == {"!", "'", ",", "-", ".", "?"}

\* the tokens left by the three re.sub, in lower case
FilterLower(toks) ==
    [i \in DOMAIN SelectSeq(toks, LAMBDA t : t \notin UrlTokens \cup MentionTokens \cup PunctTokens) |->
        lower(SelectSeq(toks, LAMBDA t : t \notin UrlTokens \cup MentionTokens \cup PunctTokens)[i])]

\* the cleaned string, as the sequence of its whitespace-separated words
_clean_text(text) == FilterLower(Tokens(text))

\* sum(1 for word in words if word in self.political_keywords[...])
positive_count(words) == Count(words, LAMBDA w : w \in political_keywords.positive)

negative_count(words) == Count(words, LAMBDA w : w \in political_keywords.negative)

_calculate_political_sentiment(words) ==
    IF Len(words) = 0 THEN Rat(0, 1)
    ELSE Rat(positive_count(words) - negative_count(words), Len(words))

emotions ==
    << <<"anger", {"angry", "mad", "furious", "outraged", "livid", "pissed", "rage"}>>,
       <<"joy", {"happy", "excited", "thrilled", "delighted", "ecstatic", "cheerful", "joyful"}>>,
       <<"fear", {"scared", "afraid", "worried", "anxious", "concerned", "nervous"}>>,
       <<"sadness", {"sad", "disappointed", "depressed", "upset", "heartbroken", "miserable"}>>,
       <<"surprise", {"surprised", "shocked", "amazed", "astonished", "stunned", "wow"}>> >>

\* `keyword in text` is a substring test: the words of the universe that hold an
\* emotion keyword without being one
SubstringPairs == {<<"coverage", "rage">>}

\* the words that hold one of the keywords
Holding(keywords) ==
    keywords \cup {p[1] : p \in {q \in SubstringPairs : q[2] \in keywords}}

HasKeyword(words, keywords) ==
    LET holding == Holding(keywords)
    IN  \E i \in DOMAIN words : words[i] \in holding

\* the first emotion, in the order of the table, one of whose keywords the text holds
_detect_emotion(words) ==
    LET First(found) ==
            IF found = {} THEN "neutral"
            ELSE emotions[CHOOSE e \in found : \A d \in found : e <= d][1]
    IN  First({e \in DOMAIN emotions : HasKeyword(words, emotions[e][2])})

\* the score itself as the confidence
confidence_signed(score) == score

\* 'confidence': abs(score) / abs(final_score)
confidence(score) == RAbs(score)

\* the keyword analysis without the bounds 0.8 and -0.8 on the score
_analyze_with_keywords_unbounded(words) ==
    LET Result(p, n) ==
            LET label == IF p > n THEN "positive" ELSE IF n > p THEN "negative" ELSE "neutral"
                score == IF p > n THEN Rat(3 + (p - n), 10)
                         ELSE IF n > p THEN Rat(-3 - (n - p), 10)
                         ELSE Rat(0, 1)
            IN  [score |-> score, label |-> label, polarity |-> score,
                 subjectivity |-> Rat(1, 2),
                 political_score |-> _calculate_political_sentiment(words),
                 confidence |-> confidence(score), emotion |-> _detect_emotion(words)]
    IN  Result(positive_count(words), negative_count(words))

_analyze_with_keywords(words) ==
    LET Result(p, n) ==
            LET label == IF p > n THEN "positive" ELSE IF n > p THEN "negative" ELSE "neutral"
                score == IF p > n THEN Rat(Min(8, 3 + (p - n)), 10)
                         ELSE IF n > p THEN Rat(Max(-8, -3 - (n - p)), 10)
                         ELSE Rat(0, 1)
            IN  [score |-> score, label |-> label, polarity |-> score,
                 subjectivity |-> Rat(1, 2),
                 political_score |-> _calculate_political_sentiment(words),
                 confidence |-> confidence(score), emotion |-> _detect_emotion(words)]
    IN  Result(positive_count(words), negative_count(words))

\* TextBlob(text).sentiment: the polarity in [-1, 1] and subjectivity in [0, 1] that the
\* library returns, a function of the text fixed by the installed lexicon (cfg.oracle)
TextBlob(words) ==
    LET Sentiment(d) ==
            LET sign == IF d > 0 THEN 1 ELSE IF d < 0 THEN -1 ELSE 0
            IN  CASE cfg.oracle = "flat" -> [polarity |-> Rat(0, 1), subjectivity |-> Rat(0, 1)]
                  [] cfg.oracle = "strong" -> [polarity |-> Rat(sign, 1), subjectivity |-> Rat(1, 1)]
                  [] cfg.oracle = "inverse" -> [polarity |-> Rat(-sign, 1), subjectivity |-> Rat(1, 2)]
    IN  Sentiment(positive_count(words) - negative_count(words))

_analyze_with_textblob(words) ==
    LET Result(blob, political_score) ==
            LET final_score == RDivInt(RAdd(blob.polarity, political_score), 2)
                label == IF RLt(Rat(1, 10), final_score) THEN "positive"
                         ELSE IF RLt(final_score, Rat(-1, 10)) THEN "negative"
                         ELSE "neutral"
            IN  [score |-> final_score, label |-> label, polarity |-> blob.polarity,
                 subjectivity |-> blob.subjectivity, political_score |-> political_score,
                 confidence |-> confidence(final_score), emotion |-> _detect_emotion(words)]
    IN  Result(TextBlob(words), _calculate_political_sentiment(words))

analyze_sentiment(text) ==
    IF cfg.HAS_TEXTBLOB THEN _analyze_with_textblob(_clean_text(text))
    ELSE _analyze_with_keywords(_clean_text(text))

-----------------------------------------------------------------------------
(* YouTubeCommentScraper: the tiers.                                       *)

NumCurated == Len(political_comments)

\* the video ids of the model
VideoIds == {"O6DTtVOPwEU", "dQw4w9WgXcQ"}

YouTubeComment(comment_id, text, likes, timestamp, is_reply, parent_id) ==
    LET Comment(sentiment) ==
            [comment_id |-> comment_id, text |-> text, likes |-> likes, timestamp |-> timestamp,
             sentiment_score |-> sentiment.score, sentiment_label |-> sentiment.label,
             is_reply |-> is_reply, parent_id |-> parent_id]
    IN  Comment(analyze_sentiment(text))

\* parent_id = None
None == << >>

YouTubeVideo(video_id, title, channel_name) ==
    [video_id |-> video_id, title |-> title, channel_name |-> channel_name]

\* the URLs given to start_monitoring, by what urlparse, parse_qs and the regular
\* expression find in them ("None": nothing)
Urls ==
    { [hostname |-> "www.youtube.com", path |-> "/watch", after_slash |-> "watch",
       v |-> "O6DTtVOPwEU", generic |-> "O6DTtVOPwEU"],
      [hostname |-> "youtu.be", path |-> "/O6DTtVOPwEU", after_slash |-> "O6DTtVOPwEU",
       v |-> "None", generic |-> "O6DTtVOPwEU"],
      [hostname |-> "www.youtube.com", path |-> "/watch", after_slash |-> "watch",
       v |-> "None", generic |-> "None"],
      [hostname |-> "example.com", path |-> "/video", after_slash |-> "video",
       v |-> "None", generic |-> "None"] }

extract_video_id(url) ==
    IF url.hostname \in {"youtube.com", "www.youtube.com"} /\ url.path = "/watch"
    THEN IF url.v = "None" THEN Raise("KeyError") ELSE Ok(url.v)
    ELSE IF url.hostname = "youtu.be" THEN Ok(url.after_slash)
    ELSE IF url.generic # "None" THEN Ok(url.generic)
    ELSE Raise("ValueError")

\* more URLs given to extract_video_id: a short link with an empty path, an embed
\* URL (only the regular expression finds its id), a watch URL of another host
UrlInputs ==
    Urls \cup
    { [hostname |-> "youtu.be", path |-> "", after_slash |-> "", v |-> "None",
       generic |-> "None"],
      [hostname |-> "www.youtube.com", path |-> "/embed/dQw4w9WgXcQ",
       after_slash |-> "embed/dQw4w9WgXcQ", v |-> "None", generic |-> "dQw4w9WgXcQ"],
      [hostname |-> "m.youtube.com", path |-> "/watch", after_slash |-> "watch",
       v |-> "dQw4w9WgXcQ", generic |-> "dQw4w9WgXcQ"] }

\* youtube.videos().list(...).execute(): api is "ok", "empty" (no items) or "raise"
_scrape_video_api(video_id, api) ==
    IF api = "raise" THEN Raise("HttpError")
    ELSE IF api = "empty" THEN Raise("ValueError")
    ELSE Ok(YouTubeVideo(video_id, "title from the API", "channel from the API"))

\* session.get(url): web is "ok", "nomatch" (no title in the page) or "raise"
_scrape_video_web(video_id, web) ==
    IF web = "raise" THEN Raise("ClientError")
    ELSE IF web = "nomatch" THEN Ok(YouTubeVideo(video_id, "VIJAYFOCUS Political Analysis", "VIJAYFOCUS"))
    ELSE Ok(YouTubeVideo(video_id, "title from the page", "channel from the page"))

_generate_mock_video_info(video_id) ==
    YouTubeVideo(video_id, "VIJAYFOCUS - Political Analysis & Current Events", "VIJAYFOCUS")

\* an outcome, with the tier that produced it and the tiers that were called
Tiered(r, tier, tried) ==
    [raised |-> r.raised, exc |-> r.exc, value |-> r.value, tier |-> tier, tried |-> tried]

\* the tiers called before the generator
TiersTried(use_api, second, name) ==
    (IF use_api THEN <<"api">> ELSE <<>>) \o (IF second THEN <<name>> ELSE <<>>)

\* the tiers of scrape_video_info with the try/except around the API tier left out
VideoTiersApiUncaught(use_api, r_api, r_web, r_mock, t1, t2) ==
    IF use_api THEN Tiered(r_api, "api", t1)
    ELSE IF cfg.HAS_AIOHTTP /\ ~r_web.raised THEN Tiered(r_web, "web", t2)
    ELSE Tiered(r_mock, "mock", t2 \o <<"mock">>)

\* the tiers of scrape_video_info, given the outcome of each: r_api and r_web are
\* looked at only where the code calls the tier
VideoTiers(use_api, r_api, r_web, r_mock, t1, t2) ==
    IF use_api /\ ~r_api.raised THEN Tiered(r_api, "api", t1)
    ELSE IF cfg.HAS_AIOHTTP /\ ~r_web.raised THEN Tiered(r_web, "web", t2)
    ELSE Tiered(r_mock, "mock", t2 \o <<"mock">>)

scrape_video_info(video_id, api, web) ==
    VideoTiers(cfg.api_key /\ cfg.HAS_YOUTUBE_API, _scrape_video_api(video_id, api),
               _scrape_video_web(video_id, web), Ok(_generate_mock_video_info(video_id)),
               TiersTried(cfg.api_key /\ cfg.HAS_YOUTUBE_API, FALSE, "web"),
               TiersTried(cfg.api_key /\ cfg.HAS_YOUTUBE_API, cfg.HAS_AIOHTTP, "web"))

\* the 11 random.choice fillers of the j-th template comment (0-based), drawn in the
\* order of the keyword arguments of template.format
Fillers(seed, k0) ==
    << Rand(seed, k0 + 1, 1, Len(professions)), Rand(seed, k0 + 2, 1, Len(sentiments)),
       Rand(seed, k0 + 3, 1, Len(fields)), Rand(seed, k0 + 4, 1, Len(agreements)),
       Rand(seed, k0 + 5, 1, Len(aspects)), Rand(seed, k0 + 6, 1, Len(topics)),
       Rand(seed, k0 + 7, 1, Len(evaluations)), Rand(seed, k0 + 8, 1, Len(qualities)),
       Rand(seed, k0 + 9, 1, Len(topics)), Rand(seed, k0 + 10, 1, Len(groups)),
       Rand(seed, k0 + 11, 1, Len(importances)) >>

\* the i-th curated comment (0-based); 3 random draws each
MockBase(video_id, i, seed) ==
    YouTubeComment(<<"mock", video_id, i>>, CuratedText(i + 1),
                   Rand(seed, 3 * i + 1, 0, 100), 0 - Rand(seed, 3 * i + 2, 1, 2880),
                   FALSE, None)

\* the j-th template comment with an id drawn from the random source
MockTemplateRandomId(video_id, base_comments, j, seed) ==
    LET k0 == 3 * base_comments + 16 * j
    IN  YouTubeComment(<<"mock", video_id, base_comments + j, seed>>,
                       TemplateText(Rand(seed, k0 + 1, 1, NumTemplates), Fillers(seed, k0 + 1)),
                       Rand(seed, k0 + 14, 0, 50), 0 - Rand(seed, k0 + 15, 1, 1440),
                       FALSE, None)

\* the j-th template comment (0-based); 16 random draws each
MockTemplate(video_id, base_comments, j, seed) ==
    LET k0 == 3 * base_comments + 16 * j
    IN  YouTubeComment(<<"mock", video_id, base_comments + j>>,
                       TemplateText(Rand(seed, k0 + 1, 1, NumTemplates), Fillers(seed, k0 + 1)),
                       Rand(seed, k0 + 14, 0, 50), 0 - Rand(seed, k0 + 15, 1, 1440),
                       FALSE, None)

\* the first loop taking the curated comments from the end of the table
MockBaseLoopReversed(video_id, base_comments, seed) ==
    IF base_comments <= 0 THEN <<>>
    ELSE [i \in 1 .. base_comments |->
             [MockBase(video_id, i - 1, seed) EXCEPT !.text = CuratedText(NumCurated + 1 - i)]]

\* the first loop: the curated comments
MockBaseLoop(video_id, base_comments, seed) ==
    IF base_comments <= 0 THEN <<>>
    ELSE [i \in 1 .. base_comments |-> MockBase(video_id, i - 1, seed)]

\* the second loop left out
MockTemplateLoopLeftOut(video_id, max_comments, seed, base_comments, made) == made

\* the second loop, after the first has made its comments: remaining template comments
MockTemplateLoop(video_id, max_comments, seed, base_comments, made) ==
    IF max_comments - Len(made) <= 0 THEN made
    ELSE made \o [j \in 1 .. (max_comments - Len(made)) |->
                         MockTemplate(video_id, base_comments, j - 1, seed)]

_generate_mock_comments(video_id, max_comments, seed) ==
    Prefix(MockTemplateLoop(video_id, max_comments, seed, Min(NumCurated, max_comments),
                            MockBaseLoop(video_id, Min(NumCurated, max_comments), seed)),
           max_comments)

\* A response of youtube.commentThreads().list: api.pages pages of api.threads threads
\* (at most maxResults) with api.replies replies each; api.fail: execute() of the last
\* page raises.  n numbers the comments of the response.
ApiReply(video_id, n, parent) ==
    YouTubeComment(<<"api", video_id, n>>, LiteralText(1 + (n % Len(literal_texts))),
                   n % 3, 0 - n, TRUE, parent)

\* a thread with its replies appended before the top-level comment
ApiThreadRepliesFirst(video_id, n, replies) ==
    [r \in 1 .. replies |-> ApiReply(video_id, n + r, <<"api", video_id, n>>)]
    \o << YouTubeComment(<<"api", video_id, n>>, LiteralText(1 + (n % Len(literal_texts))),
                         n % 3, 0 - n, FALSE, None) >>

\* a thread: the top-level comment, then its replies with parent_id = comment.comment_id
ApiThread(video_id, n, replies) ==
    << YouTubeComment(<<"api", video_id, n>>, LiteralText(1 + (n % Len(literal_texts))),
                      n % 3, 0 - n, FALSE, None) >>
    \o [r \in 1 .. replies |-> ApiReply(video_id, n + r, <<"api", video_id, n>>)]

\* the comments built from the items of page p (1-based)
ApiPage(video_id, api, maxResults, p) ==
    Concat([t \in 1 .. Min(api.threads, maxResults) |->
        ApiThread(video_id, ((p - 1) * api.threads + (t - 1)) * (api.replies + 1), api.replies)])

\* while request and len(comments) < max_comments: ...
RECURSIVE ApiLoop(_, _, _, _, _)
ApiLoop(video_id, api, max_comments, p, acc) ==
    IF p > api.pages \/ ~(Len(acc) < max_comments) THEN Ok(acc)
    ELSE IF api.fail /\ p = api.pages THEN Raise("HttpError")
    ELSE ApiLoop(video_id, api, max_comments, p + 1,
                 acc \o ApiPage(video_id, api, Min(max_comments, 100), p))

\* return comments, without the slice
Untruncated(r, max_comments) == r

\* return comments[:max_comments], unless the loop raised
Truncated(r, max_comments) == IF r.raised THEN r ELSE Ok(Prefix(r.value, max_comments))

_scrape_comments_api(video_id, max_comments, api) ==
    Truncated(ApiLoop(video_id, api, max_comments, 1, <<>>), max_comments)

_scrape_comments_selenium(video_id, max_comments, seed) ==
    Ok(_generate_mock_comments(video_id, max_comments, seed))

\* the tiers of scrape_comments with the browser tier asked before the API tier
CommentTiersSeleniumFirst(use_api, r_api, r_sel, r_mock, t1, t2) ==
    IF cfg.HAS_SELENIUM /\ ~r_sel.raised THEN Tiered(r_sel, "selenium", <<"selenium">>)
    ELSE IF use_api /\ ~r_api.raised THEN Tiered(r_api, "api", t1)
    ELSE Tiered(r_mock, "mock", t1 \o <<"mock">>)

\* the tiers of scrape_comments, given the outcome of each
CommentTiers(use_api, r_api, r_sel, r_mock, t1, t2) ==
    IF use_api /\ ~r_api.raised THEN Tiered(r_api, "api", t1)
    ELSE IF cfg.HAS_SELENIUM /\ ~r_sel.raised THEN Tiered(r_sel, "selenium", t2)
    ELSE Tiered(r_mock, "mock", t2 \o <<"mock">>)

scrape_comments(video_id, max_comments, api, seed) ==
    CommentTiers(cfg.api_key /\ cfg.HAS_YOUTUBE_API,
                 _scrape_comments_api(video_id, max_comments, api),
                 _scrape_comments_selenium(video_id, max_comments, seed),
                 Ok(_generate_mock_comments(video_id, max_comments, seed)),
                 TiersTried(cfg.api_key /\ cfg.HAS_YOUTUBE_API, FALSE, "selenium"),
                 TiersTried(cfg.api_key /\ cfg.HAS_YOUTUBE_API, cfg.HAS_SELENIUM, "selenium"))

\* the responses of the comment API tried
NoApi == [pages |-> 1, threads |-> 0, replies |-> 0, fail |-> FALSE]

ApiResponses ==
    [pages : 1 .. MaxPages, threads : 0 .. MaxThreads, replies : 0 .. MaxReplies, fail : BOOLEAN]

-----------------------------------------------------------------------------
(* YouTubeCommentScraper: the comments table and the analytics.            *)

\* a plain INSERT that kept the old row: not what the statement of line 571 does
InsertKeepingOld(rows, comment, video_id) ==
    rows \o << [comment_id |-> comment.comment_id, video_id |-> video_id, text |-> comment.text,
                likes |-> comment.likes, timestamp |-> comment.timestamp,
                sentiment_score |-> comment.sentiment_score,
                sentiment_label |-> comment.sentiment_label,
                is_reply |-> comment.is_reply, parent_id |-> comment.parent_id] >>

\* INSERT OR REPLACE of one comment: the row with the same comment_id (the primary
\* key) is deleted and the new row gets a fresh rowid
Upsert(rows, comment, video_id) ==
    SelectSeq(rows, LAMBDA r : r.comment_id # comment.comment_id)
        \o << [comment_id |-> comment.comment_id, video_id |-> video_id, text |-> comment.text,
               likes |-> comment.likes, timestamp |-> comment.timestamp,
               sentiment_score |-> comment.sentiment_score,
               sentiment_label |-> comment.sentiment_label,
               is_reply |-> comment.is_reply, parent_id |-> comment.parent_id] >>

\* for comment in comments: INSERT OR REPLACE; each statement acts on the table
\* the statement before it left (Len(rows) is taken before the next one runs)
RECURSIVE UpsertAll(_, _, _)
UpsertAll(rows, cs, video_id) ==
    IF Len(rows) >= 0 /\ Len(cs) = 0 THEN rows
    ELSE UpsertAll(Upsert(rows, cs[1], video_id), Tail(cs), video_id)

\* the outcome of save_comments_to_db and the table after it; dbfail: sqlite3 raises
\* (the file cannot be opened, the database is locked), nothing is committed
save_comments_to_db(rows, cs, video_id, dbfail) ==
    IF ~cfg.HAS_SQLITE THEN [raised |-> FALSE, exc |-> "", db |-> rows]
    ELSE IF dbfail THEN [raised |-> TRUE, exc |-> "OperationalError", db |-> rows]
    ELSE [raised |-> FALSE, exc |-> "", db |-> UpsertAll(rows, cs, video_id)]

\* ORDER BY timestamp DESC; SQL leaves the order of rows with equal timestamps open:
\* tie is "rowid" (earlier rows first) or "reverse" (later rows first).
\* Row j comes before row i
Before(rows, j, i, tie) ==
    \/ rows[j].timestamp > rows[i].timestamp
    \/ /\ rows[j].timestamp = rows[i].timestamp
       /\ IF tie = "rowid" THEN j < i ELSE j > i

\* the rows in the order of their places
Placed(rows, place) ==
    IF Len(place) = Len(rows)
    THEN [k \in DOMAIN rows |-> rows[CHOOSE i \in DOMAIN rows : place[i] = k]]
    ELSE rows

SortDesc(rows, tie) ==
    Placed(rows, [i \in DOMAIN rows |->
                     1 + Cardinality({j \in DOMAIN rows : Before(rows, j, i, tie)})])

\* the query without `AND is_reply = 0`
QueryWithReplies(rows, video_id, tie) ==
    SortDesc(SelectSeq(rows, LAMBDA r : r.video_id = video_id), tie)

\* SELECT ... WHERE video_id = ? AND is_reply = 0 ORDER BY timestamp DESC
QueryTopLevel(rows, video_id, tie) ==
    SortDesc(SelectSeq(rows, LAMBDA r : r.video_id = video_id /\ ~r.is_reply), tie)

GCD(a, b) ==
    LET RECURSIVE G(_, _)
        G(x, y) == IF y = 0 THEN x ELSE G(y, x % y)
    IN  G(Abs(a), Abs(b))

\* a rational in lowest terms
RNorm(a) ==
    LET g == GCD(a[1], a[2])
    IN  IF g = 0 THEN a ELSE << a[1] \div g, a[2] \div g >>

\* sum(s) of rationals, kept in lowest terms; the sequence is summed by halves
RECURSIVE RSum(_)
RSum(s) ==
    IF Len(s) = 0 THEN Rat(0, 1)
    ELSE IF Len(s) = 1 THEN RNorm(s[1])
    ELSE RNorm(RAdd(RSum(SubSeq(s, 1, Len(s) \div 2)),
                    RSum(SubSeq(s, Len(s) \div 2 + 1, Len(s)))))

\* a / b for an integer or rational a and an integer b: ZeroDivisionError when b = 0
Div(a, b) == IF b = 0 THEN Raise("ZeroDivisionError") ELSE Ok(RNorm(RDivInt(a, b)))

\* re.findall(r'\b\w+\b', text.lower()) on one token
RawWords(tok) ==
    IF tok \in PunctTokens THEN <<>>
    ELSE IF tok = "https://t.co/x" THEN <<"https", "t", "co", "x">>
    ELSE IF tok = "@bob" THEN <<"bob">>
    ELSE IF tok = "#wow" THEN <<"wow">>
    ELSE <<lower(tok)>>

WordsOfTokens(toks) == Concat([i \in DOMAIN toks |-> RawWords(toks[i])])

\* the words of all the texts, in order
Words(texts) == Concat([j \in DOMAIN texts |-> WordsOfTokens(Tokens(texts[j]))])

\* the multiset of the words; the sequence is counted by halves
RECURSIVE BagOfWords(_)
BagOfWords(words) ==
    IF Len(words) = 0 THEN EmptyBag
    ELSE IF Len(words) = 1 THEN SetToBag({words[1]})
    ELSE BagOfWords(SubSeq(words, 1, Len(words) \div 2))
             (+) BagOfWords(SubSeq(words, Len(words) \div 2 + 1, Len(words)))

\* Counter(words): the count of each word, and the words in the order they are met
Counter(words) == [n |-> BagOfWords(words), words |-> words]

\* Counter.most_common(k): by count, the first met first among equal counts
RECURSIVE most_common(_, _, _)
most_common(c, rest, k) ==
    IF k = 0 \/ rest = {} THEN <<>>
    ELSE LET counts == {c.n[w] : w \in rest}
             m == CHOOSE x \in counts : \A y \in counts : y <= x
             first == CHOOSE i \in DOMAIN c.words :
                         /\ c.words[i] \in rest /\ c.n[c.words[i]] = m
                         /\ \A j \in 1 .. (i - 1) : ~(c.words[j] \in rest /\ c.n[c.words[j]] = m)
             best == c.words[first]
         IN  << <<best, m>> >> \o most_common(c, rest \ {best}, k - 1)

SnapshotFields ==
    {"total_comments", "avg_sentiment", "weighted_sentiment", "sentiment_distribution",
     "positive_percentage", "negative_percentage", "neutral_percentage", "time_trend",
     "top_words", "engagement_score"}

\* round(random.uniform(lo, hi), d) in units of 10^-d: the k-th draw
Uniform(seed, k, lo, hi, unit) == Rat(Rand(seed, k, lo, hi), unit)

_generate_mock_analytics(seed) ==
    [total_comments |-> Rand(seed, 1, 50, 200),
     avg_sentiment |-> Uniform(seed, 2, -500, 700, 1000),
     weighted_sentiment |-> Uniform(seed, 3, -300, 800, 1000),
     sentiment_distribution |-> [positive |-> Rand(seed, 4, 20, 60),
                                 negative |-> Rand(seed, 5, 10, 40),
                                 neutral |-> Rand(seed, 6, 15, 45)],
     positive_percentage |-> Uniform(seed, 7, 350, 650, 10),
     negative_percentage |-> Uniform(seed, 8, 150, 350, 10),
     neutral_percentage |-> Uniform(seed, 9, 200, 400, 10),
     time_trend |-> [i \in 1 .. 10 |->
                        [timestamp |-> 0 - 60 * (11 - i),
                         sentiment |-> Uniform(seed, 9 + i, -50, 80, 100)]],
     top_words |-> << <<"analysis", 25>>, <<"great", 20>>, <<"political", 18>>,
                      <<"excellent", 15>>, <<"good", 12>>, <<"interesting", 10>>,
                      <<"helpful", 8>>, <<"thanks", 7>>, <<"policy", 6>>, <<"insightful", 5>> >>,
     engagement_score |-> Uniform(seed, 20, 30, 150, 10)]

\* for i in range(0, n, step): batch = comments_data[i:i+10] ...: the entry of the
\* b-th pass of the loop (1-based), i = (b - 1) * step
Bucket(batch) ==
    [timestamp |-> batch[1].timestamp,
     sentiment |-> RNorm(RDivInt(RSum([j \in DOMAIN batch |-> batch[j].sentiment_score]),
                                 Len(batch)))]

TimeTrend(comments_data, step) ==
    [b \in 1 .. ((Len(comments_data) + step - 1) \div step) |->
        Bucket(SubSeq(comments_data, (b - 1) * step + 1,
                      Min((b - 1) * step + 10, Len(comments_data))))]

\* a/n of the snapshot, or the exception of the first division
Percentage(count, n) == RNorm(RMulInt(Div(Rat(count, 1), n).value, 100))

\* the sum of score * likes divided by the number of comments
weighted_by_count(scores, likes) ==
    RNorm(RDivInt(RSum([i \in DOMAIN scores |-> RMulInt(scores[i], likes[i])]), Len(likes)))

\* sum(s * l for s, l in zip(sentiments, likes)) / sum(likes) if sum(likes) > 0 else 0
weighted_sentiment(scores, likes) ==
    IF SumSeq(likes) > 0
    THEN RNorm(RDivInt(RSum([i \in DOMAIN scores |-> RMulInt(scores[i], likes[i])]),
                       SumSeq(likes)))
    ELSE Rat(0, 1)

\* the analytics computed from the columns of the rows read
Snapshot(comments_data, n, scores, labels, likes, counted, avg) ==
    IF avg.raised THEN avg
    ELSE Ok([total_comments |-> n,
             avg_sentiment |-> avg.value,
             weighted_sentiment |-> weighted_sentiment(scores, likes),
             sentiment_distribution |->
                 [l \in {labels[i] : i \in DOMAIN labels} |-> Count(labels, LAMBDA x : x = l)],
             positive_percentage |-> Percentage(Count(labels, LAMBDA x : x = "positive"), n),
             negative_percentage |-> Percentage(Count(labels, LAMBDA x : x = "negative"), n),
             neutral_percentage |-> Percentage(Count(labels, LAMBDA x : x = "neutral"), n),
             time_trend |-> TimeTrend(comments_data, Max(1, n \div 10)),
             top_words |-> most_common(counted, DOMAIN counted.n, 20),
             engagement_score |-> IF n > 0 THEN RNorm(Rat(SumSeq(likes), n)) ELSE Rat(0, 1)])

\* the analytics computed from the rows read (no test that there are any)
ComputeAnalytics(comments_data) ==
    Snapshot(comments_data, Len(comments_data),
             [i \in DOMAIN comments_data |-> comments_data[i].sentiment_score],
             [i \in DOMAIN comments_data |-> comments_data[i].sentiment_label],
             [i \in DOMAIN comments_data |-> comments_data[i].likes],
             Counter(Words([i \in DOMAIN comments_data |-> comments_data[i].text])),
             Div(RSum([i \in DOMAIN comments_data |-> comments_data[i].sentiment_score]),
                 Len(comments_data)))

\* what get_sentiment_analytics does with the rows read, without the test
\* `if not comments_data`
AnalyticsOfNoEmptyTest(comments_data, seed) == ComputeAnalytics(comments_data)

\* what get_sentiment_analytics does with the rows read
AnalyticsOf(comments_data, seed) ==
    IF comments_data = <<>> THEN Ok(_generate_mock_analytics(seed))
    ELSE ComputeAnalytics(comments_data)

get_sentiment_analytics(rows, video_id, dbfail, tie, seed) ==
    IF ~cfg.HAS_SQLITE THEN Ok(_generate_mock_analytics(seed))
    ELSE IF dbfail THEN Raise("OperationalError")
    ELSE AnalyticsOf(QueryTopLevel(rows, video_id, tie), seed)

-----------------------------------------------------------------------------
(* The initial state: a scraper and a server just constructed, no caller.  *)

NoCall == [op |-> "none"]

Sockets == 1 .. MaxSockets

\* no gather yet
NoGather ==
    [type |-> "none", targets |-> {}, pending |-> {}, ok |-> {}, failed |-> {},
     raised |-> FALSE, returned |-> FALSE, after |-> "none"]

NoCycle == [entered |-> FALSE, slept |-> "none", acquired |-> FALSE, save |-> "none",
            aggregated |-> FALSE, sent |-> <<>>, stopped_at |-> "none"]

Constructed ==
    /\ db = <<>>
    /\ clients = {}
    /\ current_video_id = "None"
    /\ is_monitoring = FALSE
    /\ pc = "idle"
    /\ comments = <<>>
    /\ analytics = None
    /\ gather = NoGather
    /\ sockets = [w \in Sockets |-> "new"]
    /\ cycle = NoCycle
    /\ log = <<>>
    /\ call = NoCall
    /\ ret = None
    /\ writes = 0

\* a single-shot call returns to its caller
Return ==
    /\ call.op # "none"
    /\ call' = NoCall
    /\ ret' = None
    /\ UNCHANGED << cfg, db, server_vars, writes >>

-----------------------------------------------------------------------------
(* SpecScrape: single-shot calls of scrape_video_info, scrape_comments and *)
(* extract_video_id under every capability configuration and every         *)
(* behaviour of the tiers.                                                 *)

MaxCounts == (0 .. MaxSmall) \cup ((NumCurated - 1) .. (NumCurated + MaxExtra))

InitScrape ==
    /\ cfg \in [api_key : BOOLEAN, HAS_YOUTUBE_API : BOOLEAN, HAS_AIOHTTP : BOOLEAN,
                HAS_SELENIUM : BOOLEAN, HAS_SQLITE : {TRUE}, HAS_WEBSOCKETS : {TRUE},
                HAS_TEXTBLOB : BOOLEAN, oracle : {"strong"}]
    /\ Constructed

CallScrapeVideoInfo ==
    /\ call.op = "none"
    /\ \E video_id \in VideoIds, api \in {"ok", "empty", "raise"}, web \in {"ok", "nomatch", "raise"} :
          /\ call' = [op |-> "scrape_video_info", video_id |-> video_id, api |-> api, web |-> web]
          /\ ret' = scrape_video_info(video_id, api, web)
    /\ UNCHANGED << cfg, db, server_vars, writes >>

\* the API responds only when the API tier is called, and random draws are made only
\* when the generator runs
ApiInputs == IF cfg.api_key /\ cfg.HAS_YOUTUBE_API THEN ApiResponses ELSE {NoApi}

SeedInputs(video_id, max_comments, api) ==
    IF cfg.api_key /\ cfg.HAS_YOUTUBE_API /\ ~_scrape_comments_api(video_id, max_comments, api).raised
    THEN {0} ELSE Seeds

CallScrapeComments ==
    /\ call.op = "none"
    /\ \E video_id \in VideoIds, max_comments \in MaxCounts, api \in ApiInputs :
          \E seed \in SeedInputs(video_id, max_comments, api) :
              /\ call' = [op |-> "scrape_comments", video_id |-> video_id,
                          max_comments |-> max_comments, api |-> api, seed |-> seed]
              /\ ret' = scrape_comments(video_id, max_comments, api, seed)
    /\ UNCHANGED << cfg, db, server_vars, writes >>

CallExtractVideoId ==
    /\ call.op = "none"
    /\ \E url \in UrlInputs :
          /\ call' = [op |-> "extract_video_id", url |-> url]
          /\ ret' = extract_video_id(url)
    /\ UNCHANGED << cfg, db, server_vars, writes >>

NextScrape == CallScrapeVideoInfo \/ CallScrapeComments \/ CallExtractVideoId \/ Return

SpecScrape == InitScrape /\ [][NextScrape]_vars

-----------------------------------------------------------------------------
(* SpecAnalyze: single-shot calls of analyze_sentiment on the texts of the *)
(* universe, under both strategies and every lexicon of TextBlob.          *)

InitAnalyze ==
    /\ cfg \in [api_key : {FALSE}, HAS_YOUTUBE_API : {TRUE}, HAS_AIOHTTP : {FALSE},
                HAS_SELENIUM : {FALSE}, HAS_SQLITE : {TRUE}, HAS_WEBSOCKETS : {TRUE},
                HAS_TEXTBLOB : BOOLEAN, oracle : {"flat", "strong", "inverse"}]
    /\ Constructed

\* the texts analysed: the curated comments, the texts from outside (the empty
\* string among them) and template comments
AnalyzedTexts ==
    {CuratedText(i) : i \in 1 .. NumCurated}
    \cup {LiteralText(i) : i \in 1 .. Len(literal_texts)}
    \cup {KeywordText(i) : i \in 1 .. Len(keyword_texts)}
    \cup {TemplateText(k, Fillers(seed, k)) : k \in 1 .. NumTemplates, seed \in Seeds}

CallAnalyzeSentiment ==
    /\ call.op = "none"
    /\ \E text \in AnalyzedTexts :
          /\ call' = [op |-> "analyze_sentiment", text |-> text]
          /\ ret' = Ok(analyze_sentiment(text))
    /\ UNCHANGED << cfg, db, server_vars, writes >>

NextAnalyze == CallAnalyzeSentiment \/ Return

SpecAnalyze == InitAnalyze /\ [][NextAnalyze]_vars

-----------------------------------------------------------------------------
(* SpecStore: single-shot calls of save_comments_to_db and                 *)
(* get_sentiment_analytics on one database file.                           *)

\* max_comments of analyze_video
AnalyzeBatch == 100

InitStore ==
    /\ cfg \in [api_key : BOOLEAN, HAS_YOUTUBE_API : {TRUE}, HAS_AIOHTTP : {FALSE},
                HAS_SELENIUM : {FALSE}, HAS_SQLITE : BOOLEAN, HAS_WEBSOCKETS : {TRUE},
                HAS_TEXTBLOB : {FALSE}, oracle : {"strong"}]
    /\ Constructed

\* the comment lists saved: what scrape_comments returns, from the API when it is
\* configured and from the generator otherwise
StoreInputs ==
    IF cfg.api_key /\ cfg.HAS_YOUTUBE_API
    THEN {[max_comments |-> AnalyzeBatch, api |-> a, seed |-> 0] :
             a \in [pages : {1}, threads : {1, MaxThreads}, replies : {0, MaxReplies}, fail : {FALSE}]}
    ELSE {[max_comments |-> m, api |-> NoApi, seed |-> sd] : m \in {2, 11}, sd \in {0, MaxSeed}}

\* sqlite3 can raise only where it is used
DbFailures == IF cfg.HAS_SQLITE THEN BOOLEAN ELSE {FALSE}

CallSaveComments ==
    /\ call.op = "none"
    /\ writes < MaxSaves
    /\ \E video_id \in VideoIds, inp \in StoreInputs, dbfail \in DbFailures :
          \E cs \in {scrape_comments(video_id, inp.max_comments, inp.api, inp.seed).value} :
              \E r \in {save_comments_to_db(db, cs, video_id, dbfail)} :
                  /\ db' = r.db
                  /\ call' = [op |-> "save_comments_to_db", video_id |-> video_id,
                              dbfail |-> dbfail, n |-> Len(cs), inp |-> inp]
                  /\ ret' = [raised |-> r.raised, exc |-> r.exc, value |-> None]
    /\ writes' = writes + 1
    /\ UNCHANGED << cfg, server_vars >>

Ties == {"rowid", "reverse"}

CallGetSentimentAnalytics ==
    /\ call.op = "none"
    /\ \E video_id \in VideoIds, dbfail \in DbFailures, tie \in Ties, seed \in Seeds :
          /\ call' = [op |-> "get_sentiment_analytics", video_id |-> video_id,
                      dbfail |-> dbfail, seed |-> seed,
                      rows |-> Len(QueryTopLevel(db, video_id, tie))]
          /\ ret' = get_sentiment_analytics(db, video_id, dbfail, tie, seed)
    /\ UNCHANGED << cfg, db, server_vars, writes >>

NextStore == CallSaveComments \/ CallGetSentimentAnalytics \/ Return

SpecStore == InitStore /\ [][NextStore]_vars

-----------------------------------------------------------------------------
(* Spec: the monitoring server.  One start_monitoring task, the websocket  *)
(* handlers (register_client) and the connections.  The task is left at    *)
(* its suspensions only: the other coroutines run while pc is one.         *)

\* max_comments of the monitoring loop
MonitorBatch == 50

\* the statements of the try block with the broadcasts in the other order
try_body_swapped ==
    << "scrape_comments", "save_comments_to_db", "get_sentiment_analytics",
       "broadcast_analytics_update", "broadcast_new_comments", "sleep30" >>

\* the statements of the try block with video_info broadcast again in every pass
try_body_info_each_pass ==
    << "scrape_comments", "save_comments_to_db", "get_sentiment_analytics",
       "broadcast_new_comments", "broadcast_analytics_update", "broadcast_video_info",
       "sleep30" >>

\* the statements of the try block with the analytics computed between the broadcasts
try_body_aggregate_between ==
    << "scrape_comments", "save_comments_to_db", "broadcast_new_comments",
       "get_sentiment_analytics", "broadcast_analytics_update", "sleep30" >>

\* the statements of the try block with new_comments broadcast before the save
try_body_broadcast_early ==
    << "scrape_comments", "broadcast_new_comments", "save_comments_to_db",
       "get_sentiment_analytics", "broadcast_analytics_update", "sleep30" >>

\* the statements of the try block of the monitoring loop, in order
try_body ==
    << "scrape_comments", "save_comments_to_db", "get_sentiment_analytics",
       "broadcast_new_comments", "broadcast_analytics_update", "sleep30" >>

\* the statement after step: the next of the try block, the loop test after the last
Following(step) ==
    LET After(i) == IF i = Len(try_body) THEN "while" ELSE try_body[i + 1]
    IN  After(CHOOSE j \in DOMAIN try_body : try_body[j] = step)

\* no handler: the exception leaves start_monitoring
except_nothing(exc) == "raised"

\* the handler with the sleep of a clean pass in place of the backoff
except_sleep30(exc) == IF exc = "CancelledError" THEN "cancelled" ELSE "sleep30"

\* except Exception as e: print, then the backoff sleep; CancelledError is no Exception
except_Exception(exc) == IF exc = "CancelledError" THEN "cancelled" ELSE "sleep60"

\* the message type of a broadcast statement
MessageType(step) ==
    CASE step = "broadcast_video_info" -> "video_info"
      [] step = "broadcast_new_comments" -> "new_comments"
      [] step = "broadcast_analytics_update" -> "analytics_update"

\* the awaits at which the task is suspended and the other coroutines run: the
\* gather of broadcast_update and the sleeps.  The awaits of scrape_video_info and
\* scrape_comments run to their return without yielding (the API client blocks, the
\* generators are plain functions; only the page fetch of aiohttp would yield).
Suspended == {"gather", "sleep30", "sleep60"}

\* the task has not started, or has ended
NoTask == {"idle", "done", "raised", "cancelled"}

Init ==
    /\ cfg \in [api_key : BOOLEAN, HAS_YOUTUBE_API : {TRUE}, HAS_AIOHTTP : {FALSE},
                HAS_SELENIUM : {FALSE}, HAS_SQLITE : {TRUE}, HAS_WEBSOCKETS : {TRUE},
                HAS_TEXTBLOB : {FALSE}, oracle : {"strong"}]
    /\ Constructed

\* start_monitoring up to its first await
StartMonitoring ==
    /\ pc = "idle"
    /\ \E url \in (IF call.op = "start_monitoring" THEN {call.url} ELSE Urls) :
          \E r \in {extract_video_id(url)} :
              IF r.raised
              THEN /\ pc' = "raised"
                   /\ UNCHANGED << current_video_id, is_monitoring >>
              ELSE /\ current_video_id' = r.value
                   /\ is_monitoring' = TRUE
                   /\ pc' = "scrape_video_info"
    /\ UNCHANGED << cfg, db, clients, comments, analytics, gather, sockets, cycle, log,
                    call, ret, writes >>

\* video_info = await self.scraper.scrape_video_info(self.current_video_id)
ScrapeVideoInfo ==
    /\ pc = "scrape_video_info"
    /\ \E api \in (IF cfg.api_key /\ cfg.HAS_YOUTUBE_API THEN {"ok", "empty", "raise"} ELSE {"ok"}) :
          \E r \in {scrape_video_info(current_video_id, api, "ok")} :
              pc' = IF r.raised THEN "raised" ELSE "broadcast_video_info"
    /\ UNCHANGED << cfg, db, clients, current_video_id, is_monitoring, comments, analytics,
                    gather, sockets, cycle, log, call, ret, writes >>


\* broadcast_update up to its await: the sends are created for the clients of this
\* moment; with no client (or no websockets) nothing is awaited
BroadcastUpdate ==
    /\ pc \in {"broadcast_video_info", "broadcast_new_comments", "broadcast_analytics_update"}
    /\ log' = IF Len(log) < MaxLog THEN Append(log, MessageType(pc)) ELSE log
    /\ cycle' = [cycle EXCEPT !.sent = Append(@, MessageType(pc))]
    /\ \E after \in {IF pc = "broadcast_video_info" THEN "while" ELSE Following(pc)} :
          IF clients # {} /\ cfg.HAS_WEBSOCKETS
          THEN /\ gather' = [type |-> MessageType(pc), targets |-> clients,
                             pending |-> clients, ok |-> {}, failed |-> {},
                             raised |-> FALSE, returned |-> FALSE, after |-> after]
               /\ pc' = "gather"
          ELSE /\ gather' = NoGather
               /\ pc' = after
    /\ UNCHANGED << cfg, db, clients, current_video_id, is_monitoring, comments, analytics,
                    sockets, call, ret, writes >>

\* client.send(message) returns
Send(w) ==
    /\ pc = "gather"
    /\ w \in gather.pending
    /\ sockets[w] = "open"
    /\ gather' = [gather EXCEPT !.pending = @ \ {w}, !.ok = @ \cup {w}]
    /\ UNCHANGED << cfg, db, clients, current_video_id, is_monitoring, pc, comments,
                    analytics, sockets, cycle, log, call, ret, writes >>

\* gather without return_exceptions: the first exception is raised to the awaiter
\* and the other sends are left behind
SendRaisedToAwaiter(g, w) ==
    [g EXCEPT !.pending = {}, !.failed = @ \cup {w}, !.raised = TRUE]

\* gather(..., return_exceptions=True): the exception of a send is one of the results
SendRaised(g, w) == [g EXCEPT !.pending = @ \ {w}, !.failed = @ \cup {w}]

\* client.send(message) raises ConnectionClosed
SendFails(w) ==
    /\ pc = "gather"
    /\ w \in gather.pending
    /\ sockets[w] = "closed"
    /\ gather' = SendRaised(gather, w)
    /\ UNCHANGED << cfg, db, clients, current_video_id, is_monitoring, pc, comments,
                    analytics, sockets, cycle, log, call, ret, writes >>

\* the gather is done and broadcast_update returns (or raises what gather raised)
GatherReturns ==
    /\ pc = "gather"
    /\ gather.pending = {}
    /\ gather' = [gather EXCEPT !.returned = TRUE]
    /\ pc' = IF ~gather.raised THEN gather.after
             ELSE IF cycle.entered THEN except_Exception("ConnectionClosed")
             ELSE "raised"
    /\ UNCHANGED << cfg, db, clients, current_video_id, is_monitoring, comments, analytics,
                    sockets, cycle, log, call, ret, writes >>

\* the loop as `while True:`
LoopTestIgnoringFlag ==
    /\ pc = "while"
    /\ pc' = try_body[1]
    /\ cycle' = [NoCycle EXCEPT !.entered = TRUE, !.slept = cycle.slept]
    /\ gather' = NoGather
    /\ comments' = <<>>
    /\ analytics' = None
    /\ UNCHANGED << cfg, db, clients, current_video_id, is_monitoring, sockets, log,
                    call, ret, writes >>

\* while self.is_monitoring: a pass of the loop begins (or the task ends); the
\* locals comments and analytics are bound anew in the pass before they are read
LoopTest ==
    /\ pc = "while"
    /\ pc' = IF is_monitoring THEN try_body[1] ELSE "done"
    /\ cycle' = [NoCycle EXCEPT !.entered = TRUE, !.slept = cycle.slept]
    /\ gather' = NoGather
    /\ comments' = <<>>
    /\ analytics' = None
    /\ UNCHANGED << cfg, db, clients, current_video_id, is_monitoring, sockets, log,
                    call, ret, writes >>

\* the responses of the comment API and the random sources tried in the loop
MonitorApiInputs ==
    IF cfg.api_key /\ cfg.HAS_YOUTUBE_API
    THEN {[pages |-> 1, threads |-> MaxThreads, replies |-> MaxReplies, fail |-> f] :
             f \in BOOLEAN}
    ELSE {NoApi}

MonitorSeeds(api) == IF cfg.api_key /\ cfg.HAS_YOUTUBE_API /\ ~api.fail THEN {0} ELSE {0, MaxSeed}

\* comments = await self.scraper.scrape_comments(self.current_video_id, 50)
ScrapeComments ==
    /\ pc = "scrape_comments"
    /\ \E api \in MonitorApiInputs :
          \E seed \in MonitorSeeds(api) :
              \E r \in {scrape_comments(current_video_id, MonitorBatch, api, seed)} :
                  IF r.raised
                  THEN pc' = except_Exception(r.exc) /\ UNCHANGED << comments, cycle >>
                  ELSE /\ pc' = Following(pc)
                       /\ comments' = r.value
                       /\ cycle' = [cycle EXCEPT !.acquired = TRUE]
    /\ UNCHANGED << cfg, db, clients, current_video_id, is_monitoring, analytics, gather,
                    sockets, log, call, ret, writes >>

\* self.scraper.save_comments_to_db(comments, self.current_video_id)
SaveComments ==
    /\ pc = "save_comments_to_db"
    /\ \E dbfail \in DbFailures :
          \E r \in {save_comments_to_db(db, comments, current_video_id, dbfail)} :
              /\ db' = r.db
              /\ cycle' = [cycle EXCEPT !.save = IF r.raised THEN "raised" ELSE "ok"]
              /\ pc' = IF r.raised THEN except_Exception(r.exc) ELSE Following(pc)
    /\ UNCHANGED << cfg, clients, current_video_id, is_monitoring, comments, analytics,
                    gather, sockets, log, call, ret, writes >>

\* analytics = self.scraper.get_sentiment_analytics(self.current_video_id)
GetSentimentAnalytics ==
    /\ pc = "get_sentiment_analytics"
    /\ \E dbfail \in DbFailures, tie \in Ties :
          \E r \in {get_sentiment_analytics(db, current_video_id, dbfail, tie, 0)} :
              IF r.raised
              THEN pc' = except_Exception(r.exc) /\ UNCHANGED << analytics, cycle >>
              ELSE /\ pc' = Following(pc)
                   /\ analytics' = r.value
                   /\ cycle' = [cycle EXCEPT !.aggregated = TRUE]
    /\ UNCHANGED << cfg, db, clients, current_video_id, is_monitoring, comments, gather,
                    sockets, log, call, ret, writes >>

\* asyncio.sleep(30) or asyncio.sleep(60) is over
SleepEnds ==
    /\ pc \in {"sleep30", "sleep60"}
    /\ pc' = "while"
    /\ cycle' = [cycle EXCEPT !.slept = pc]
    /\ UNCHANGED << cfg, db, clients, current_video_id, is_monitoring, comments, analytics,
                    gather, sockets, log, call, ret, writes >>

\* a connect that also joins the broadcast in progress, as if the sends were made
\* from the set as it changes
ConnectJoiningBroadcast(w) ==
    /\ pc \in Suspended \cup NoTask
    /\ sockets[w] = "new"
    /\ sockets' = [sockets EXCEPT ![w] = "open"]
    /\ clients' = IF cfg.HAS_WEBSOCKETS THEN clients \cup {w} ELSE clients
    /\ gather' = IF pc = "gather"
                 THEN [gather EXCEPT !.targets = @ \cup {w}, !.pending = @ \cup {w}]
                 ELSE gather
    /\ UNCHANGED << cfg, db, current_video_id, is_monitoring, pc, comments, analytics,
                    cycle, log, call, ret, writes >>

\* register_client up to its await: a websocket connects and is added
Connect(w) ==
    /\ pc \in Suspended \cup NoTask
    /\ sockets[w] = "new"
    /\ sockets' = [sockets EXCEPT ![w] = "open"]
    /\ clients' = IF cfg.HAS_WEBSOCKETS THEN clients \cup {w} ELSE clients
    /\ UNCHANGED << cfg, db, current_video_id, is_monitoring, pc, comments, analytics,
                    gather, cycle, log, call, ret, writes >>

\* the connection of a websocket closes
ConnectionLost(w) ==
    /\ pc \in Suspended \cup NoTask
    /\ sockets[w] = "open"
    /\ sockets' = [sockets EXCEPT ![w] = "closed"]
    /\ UNCHANGED << cfg, db, clients, current_video_id, is_monitoring, pc, comments,
                    analytics, gather, cycle, log, call, ret, writes >>

\* register_client after websocket.wait_closed(): finally, the websocket is removed
Unregister(w) ==
    /\ pc \in Suspended \cup NoTask
    /\ sockets[w] = "closed"
    /\ w \in clients
    /\ clients' = clients \ {w}
    /\ UNCHANGED << cfg, db, current_video_id, is_monitoring, pc, comments, analytics,
                    gather, sockets, cycle, log, call, ret, writes >>

\* the owner of the server clears the flag
StopMonitoring ==
    /\ pc \in Suspended
    /\ is_monitoring
    /\ is_monitoring' = FALSE
    /\ cycle' = [cycle EXCEPT !.stopped_at = IF pc = "gather" THEN gather.type ELSE pc]
    /\ UNCHANGED << cfg, db, clients, current_video_id, pc, comments, analytics, gather,
                    sockets, log, call, ret, writes >>

\* the task is cancelled: CancelledError is raised at its await and the task ends,
\* its locals and its pending gather with it
Cancel ==
    /\ pc \in Suspended
    /\ pc' = "cancelled"
    /\ comments' = <<>>
    /\ analytics' = None
    /\ gather' = NoGather
    /\ cycle' = [NoCycle EXCEPT !.entered = cycle.entered]
    /\ UNCHANGED << cfg, db, clients, current_video_id, is_monitoring, sockets, log,
                    call, ret, writes >>

\* the steps of the start_monitoring task and of the sends it awaits
Task ==
    \/ ScrapeVideoInfo
    \/ BroadcastUpdate
    \/ \E w \in Sockets : Send(w) \/ SendFails(w)
    \/ GatherReturns
    \/ LoopTest
    \/ ScrapeComments
    \/ SaveComments
    \/ GetSentimentAnalytics
    \/ SleepEnds

Environment ==
    \/ \E w \in Sockets : Connect(w) \/ ConnectionLost(w) \/ Unregister(w)
    \/ StopMonitoring
    \/ Cancel

Next == StartMonitoring \/ Task \/ Environment

Spec == Init /\ [][Next]_vars

\* the sleep of a pass ends (asyncio.sleep returns after its delay) and the event
\* loop resumes the task, which runs on to the loop test
SpecLive == Spec /\ WF_vars(SleepEnds) /\ WF_vars(LoopTest)

\* the steps of a broadcast: the task runs on to its gather, every send ends, and the
\* task is resumed when the gather is done
Delivery ==
    \/ BroadcastUpdate
    \/ \E w \in Sockets : Send(w) \/ SendFails(w)
    \/ GatherReturns

SpecLiveCycle == SpecLive /\ WF_vars(Delivery)

-----------------------------------------------------------------------------
(* SpecMonitor: the server from a call start_monitoring(video_url) whose    *)
(* argument is fixed at the call; call holds it for the whole behaviour.    *)

\* the URL carries an id where its form has one: the v parameter of a watch URL,
\* the path of a short link, a run of 11 id characters in any other URL
HasId(url) ==
    IF url.hostname \in {"youtube.com", "www.youtube.com"} /\ url.path = "/watch"
    THEN url.v # "None"
    ELSE IF url.hostname = "youtu.be" THEN url.after_slash # ""
    ELSE url.generic # "None"

\* the arguments of start_monitoring: the URLs without an id, and one with
StartUrls ==
    {url \in UrlInputs : ~HasId(url) \/ (url.hostname = "youtu.be" /\ url.generic # "None")}

InitMonitor ==
    /\ cfg \in [api_key : BOOLEAN, HAS_YOUTUBE_API : {TRUE}, HAS_AIOHTTP : {FALSE},
                HAS_SELENIUM : {FALSE}, HAS_SQLITE : {TRUE}, HAS_WEBSOCKETS : {TRUE},
                HAS_TEXTBLOB : {FALSE}, oracle : {"strong"}]
    /\ db = <<>>
    /\ clients = {}
    /\ current_video_id = "None"
    /\ is_monitoring = FALSE
    /\ pc = "idle"
    /\ comments = <<>>
    /\ analytics = None
    /\ gather = NoGather
    /\ sockets = [w \in Sockets |-> "new"]
    /\ cycle = NoCycle
    /\ log = <<>>
    /\ call \in [op : {"start_monitoring"}, url : StartUrls]
    /\ ret = None
    /\ writes = 0

SpecMonitor == InitMonitor /\ [][Next]_vars

-----------------------------------------------------------------------------
(* SpecClients: calls of register_client, by any caller: several handlers  *)
(* can be in progress at once, two of them for one websocket.  call and    *)
(* ret hold one entry per handler.                                         *)

MaxHandlers == 2

Handlers == 1 .. MaxHandlers

\* set.remove(x): KeyError when x is not in the set
remove(s, x) == IF x \in s THEN Ok(s \ {x}) ELSE Raise("KeyError")

InitClients ==
    /\ cfg \in [api_key : {FALSE}, HAS_YOUTUBE_API : {TRUE}, HAS_AIOHTTP : {FALSE},
                HAS_SELENIUM : {FALSE}, HAS_SQLITE : {TRUE}, HAS_WEBSOCKETS : BOOLEAN,
                HAS_TEXTBLOB : {FALSE}, oracle : {"strong"}]
    /\ db = <<>> /\ clients = {} /\ current_video_id = "None" /\ is_monitoring = FALSE
    /\ pc = "idle" /\ comments = <<>> /\ analytics = None /\ gather = NoGather
    /\ sockets = [w \in Sockets |-> "new"] /\ cycle = NoCycle /\ log = <<>> /\ writes = 0
    /\ call = [h \in Handlers |-> NoCall]
    /\ ret = [h \in Handlers |-> None]

\* register_client(websocket) up to its await (or to its return without websockets);
\* a websocket is handed over with its connection made
RegisterClient(h, w) ==
    /\ call[h].op = "none"
    /\ sockets' = [sockets EXCEPT ![w] = IF @ = "new" THEN "open" ELSE @]
    /\ IF ~cfg.HAS_WEBSOCKETS
       THEN /\ call' = [call EXCEPT ![h] = [op |-> "register_client", websocket |-> w,
                                            at |-> "return"]]
            /\ ret' = [ret EXCEPT ![h] = Ok(None)]
            /\ UNCHANGED clients
       ELSE /\ clients' = clients \cup {w}
            /\ call' = [call EXCEPT ![h] = [op |-> "register_client", websocket |-> w,
                                            at |-> "wait_closed"]]
            /\ UNCHANGED ret
    /\ UNCHANGED << cfg, db, current_video_id, is_monitoring, pc, comments, analytics,
                    gather, cycle, log, writes >>

\* websocket.wait_closed() returns, then finally: self.clients.remove(websocket)
WaitClosedReturns(h) ==
    /\ call[h].op = "register_client" /\ call[h].at = "wait_closed"
    /\ sockets[call[h].websocket] = "closed"
    /\ \E r \in {remove(clients, call[h].websocket)} :
          /\ clients' = IF r.raised THEN clients ELSE r.value
          /\ ret' = [ret EXCEPT ![h] = IF r.raised THEN r ELSE Ok(None)]
    /\ call' = [call EXCEPT ![h].at = "return"]
    /\ UNCHANGED << cfg, db, current_video_id, is_monitoring, pc, comments, analytics,
                    gather, sockets, cycle, log, writes >>

\* the handler returns (or raises) to its caller
ReturnClient(h) ==
    /\ call[h].op = "register_client" /\ call[h].at = "return"
    /\ call' = [call EXCEPT ![h] = NoCall]
    /\ ret' = [ret EXCEPT ![h] = None]
    /\ UNCHANGED << cfg, db, server_vars, writes >>

NextClients ==
    \/ \E h \in Handlers, w \in Sockets : RegisterClient(h, w)
    \/ \E h \in Handlers : WaitClosedReturns(h) \/ ReturnClient(h)
    \/ \E w \in Sockets : ConnectionLost(w)

SpecClients == InitClients /\ [][NextClients]_vars

-----------------------------------------------------------------------------
(* Claims.                                                                 *)

\* C1: scrape_video_info returns a video whose id is the requested id under every
\* configuration of the tiers and every failure of them (the API tier raising or
\* finding no item, the page fetch raising); nothing is raised to the caller.
C1_VideoInfoNeverRaises ==
    call.op = "scrape_video_info" =>
        /\ ~ret.raised
        /\ ret.value.video_id = call.video_id

\* both real tiers were called and failed, and the generator answered
C1_Witness ==
    /\ call.op = "scrape_video_info"
    /\ call.api = "empty"
    /\ call.web = "raise"
    /\ ret.tried = <<"api", "web", "mock">>
    /\ ~ret.raised
    /\ ret.value.video_id = call.video_id

\* C2: whatever tier answers, scrape_comments returns at most max_comments comments.
C2_AtMostMaxComments ==
    call.op = "scrape_comments" =>
        /\ ~ret.raised
        /\ Len(ret.value) <= call.max_comments

\* the API tier answered and its last thread was cut by the truncation: the second
\* comment is a reply, so the third, a top-level comment, lost its own reply
C2_Witness ==
    /\ call.op = "scrape_comments"
    /\ ret.tier = "api"
    /\ call.max_comments = 3
    /\ Len(ret.value) = 3
    /\ ret.value[2].is_reply
    /\ ~ret.value[3].is_reply

\* C3: when the API tier is not configured or has failed, scrape_comments returns
\* exactly max_comments comments (the generator never runs out: min(max_comments,
\* available) = max_comments): the curated comments in table order, then template
\* comments for the remainder.
C3_SyntheticExactCount ==
    (call.op = "scrape_comments" /\ ret.tier # "api") =>
        /\ ~ret.raised
        /\ Len(ret.value) = call.max_comments
        /\ \A i \in 1 .. Len(ret.value) :
              IF i <= NumCurated THEN ret.value[i].text = CuratedText(i)
              ELSE ret.value[i].text.kind = "template"

\* the API tier failed, the generator answered and had to use templates
C3_Witness ==
    /\ call.op = "scrape_comments"
    /\ ret.tried = <<"api", "mock">>
    /\ call.max_comments = NumCurated + 2
    /\ Len(ret.value) = NumCurated + 2
    /\ ret.value[NumCurated + 2].text.kind = "template"

\* C4: when a broadcast_update call returns, the failure of a send has not been
\* raised out of it, and every subscriber that was in the set at the call and whose
\* send did not fail has received the message.
C4_BroadcastFailureIsolated ==
    gather.returned =>
        /\ ~gather.raised
        /\ gather.ok = gather.targets \ gather.failed
        /\ gather.ok \cup gather.failed = gather.targets

\* one send of the call failed, another was delivered, and the call returned
C4_Witness ==
    /\ gather.returned
    /\ gather.failed # {}
    /\ gather.ok # {}
    /\ ~gather.raised

\* C5: once the loop is entered, no exception of a pass ends start_monitoring (the
\* task is never left by an exception other than its cancellation), and after a
\* failed pass (the backoff sleep) another pass is started unless the task is
\* cancelled or the monitoring flag has been cleared.
C5_LoopSurvivesCycleErrors ==
    /\ [](cycle.entered => pc # "raised")
    /\ (pc = "sleep60") ~> (pc \in {try_body[1], "done", "cancelled"})

\* a pass failed, the backoff sleep is over and the next pass has begun
C5_Witness ==
    /\ pc = try_body[1]
    /\ cycle.entered
    /\ cycle.slept = "sleep60"

\* C6: video_info is broadcast first and once only, before the loop is entered; in
\* every pass new_comments is broadcast before analytics_update, and
\* analytics_update only straight after new_comments.
C6_BroadcastOrder ==
    /\ log # <<>> => log[1] = "video_info"
    /\ \A i \in 2 .. Len(log) : log[i] # "video_info"
    /\ \A i \in 1 .. Len(log) : log[i] = "analytics_update" => (i > 1 /\ log[i - 1] = "new_comments")
    /\ cycle.entered => log # <<>>
    /\ cycle.entered => cycle.sent \in {<<>>, <<"new_comments">>,
                                         <<"new_comments", "analytics_update">>}

\* two passes have broadcast after the video_info
C6_Witness ==
    /\ log = <<"video_info", "new_comments", "analytics_update", "new_comments",
               "analytics_update">>
    /\ cycle.sent = <<"new_comments", "analytics_update">>

\* C7: a pass whose save_comments_to_db raised still computes the analytics and
\* broadcasts new_comments and analytics_update before it ends (at its sleep).
C7_UpsertFailureCycleContinues ==
    (cycle.save = "raised" /\ pc \in {"sleep30", "sleep60"}) =>
        /\ cycle.aggregated
        /\ cycle.sent = <<"new_comments", "analytics_update">>

\* C8: when the store is unavailable (no sqlite3 module, or the read raising),
\* get_sentiment_analytics raises nothing and returns the synthetic snapshot.
C8_StoreUnavailableSynthetic ==
    (call.op = "get_sentiment_analytics" /\ (~cfg.HAS_SQLITE \/ call.dbfail)) =>
        /\ ~ret.raised
        /\ ret.value = _generate_mock_analytics(call.seed)

\* C9: when the table holds no top-level comment of the video, get_sentiment_analytics
\* raises nothing (no division by zero) and returns a snapshot with every field and
\* total_comments > 0.
C9_NoRowsWellFormed ==
    (call.op = "get_sentiment_analytics" /\ cfg.HAS_SQLITE /\ ~call.dbfail /\ call.rows = 0) =>
        /\ ~ret.raised
        /\ DOMAIN ret.value = SnapshotFields
        /\ ret.value.total_comments > 0

\* the table holds rows, none of them a top-level comment of the video asked for
C9_Witness ==
    /\ call.op = "get_sentiment_analytics"
    /\ cfg.HAS_SQLITE /\ ~call.dbfail
    /\ db # <<>>
    /\ call.rows = 0
    /\ ~ret.raised
    /\ ret.value.total_comments > 0

\* C10: in every snapshot returned by get_sentiment_analytics, for the rows of the
\* table and for no rows, the positive, negative and neutral percentages are each in
\* [0, 100] and sum to 100 (to within 1/10, the rounding of the percentages).
C10_PercentagesSumTo100 ==
    (call.op = "get_sentiment_analytics" /\ ~ret.raised) =>
        /\ \A f \in {"positive_percentage", "negative_percentage", "neutral_percentage"} :
              RLe(Rat(0, 1), ret.value[f]) /\ RLe(ret.value[f], Rat(100, 1))
        /\ RLe(RAbs(RAdd(RAdd(RAdd(ret.value.positive_percentage,
                                   ret.value.negative_percentage),
                              ret.value.neutral_percentage), Rat(-100, 1))), Rat(1, 10))

\* C11: for a table with n > 0 top-level rows of the video, the time_trend of
\* get_sentiment_analytics has at most 10 entries, and exactly 1 when n < 10.
C11_TimeTrendBuckets ==
    (call.op = "get_sentiment_analytics" /\ ~ret.raised /\ call.rows > 0) =>
        /\ Len(ret.value.time_trend) <= 10
        /\ call.rows < 10 => Len(ret.value.time_trend) = 1

\* C12: for a table with top-level rows of the video, weighted_sentiment is the sum
\* of score * likes over those rows divided by the sum of their likes, and it is
\* exactly 0, with nothing raised, when every one of them has 0 likes.
C12_WeightedSentiment ==
    (call.op = "get_sentiment_analytics" /\ cfg.HAS_SQLITE /\ ~call.dbfail /\ call.rows > 0) =>
        /\ ~ret.raised
        /\ \E rows \in {SelectSeq(db, LAMBDA r : r.video_id = call.video_id /\ ~r.is_reply)} :
              \E total \in {SumSeq([i \in DOMAIN rows |-> rows[i].likes])} :
                  IF total = 0 THEN ret.value.weighted_sentiment = Rat(0, 1)
                  ELSE REq(RMulInt(ret.value.weighted_sentiment, total),
                           RSum([i \in DOMAIN rows |->
                                    RMulInt(rows[i].sentiment_score, rows[i].likes)]))

\* several top-level rows, a score among them that is not 0, and no like at all
C12_Witness ==
    /\ call.op = "get_sentiment_analytics" /\ cfg.HAS_SQLITE /\ ~call.dbfail
    /\ call.rows > 1
    /\ \A i \in DOMAIN db : db[i].likes = 0
    /\ \E i \in DOMAIN db : db[i].video_id = call.video_id /\ ~db[i].is_reply
                            /\ ~REq(db[i].sentiment_score, Rat(0, 1))
    /\ ~ret.raised
    /\ ret.value.weighted_sentiment = Rat(0, 1)

\* C13: for every text, the empty string among them, and under either strategy,
\* analyze_sentiment raises nothing and returns a label among positive, negative and
\* neutral, a score in [-1, 1] and confidence = |score|.
C13_SentimentWellFormed ==
    call.op = "analyze_sentiment" =>
        /\ ~ret.raised
        /\ ret.value.label \in {"positive", "negative", "neutral"}
        /\ RLe(Rat(-1, 1), ret.value.score) /\ RLe(ret.value.score, Rat(1, 1))
        /\ RLe(Rat(0, 1), ret.value.confidence)
        /\ \/ REq(ret.value.confidence, ret.value.score)
           \/ REq(RAdd(ret.value.confidence, ret.value.score), Rat(0, 1))

\* a text scored below 0 by the TextBlob strategy
C13_Witness ==
    /\ call.op = "analyze_sentiment"
    /\ cfg.HAS_TEXTBLOB
    /\ Tokens(call.text) # <<>>
    /\ ret.value.label = "negative"
    /\ RLt(ret.value.score, Rat(0, 1))
    /\ REq(RAdd(ret.value.confidence, ret.value.score), Rat(0, 1))

\* C14: extract_video_id returns the v parameter of a watch URL, the path segment
\* of a short link and the match of the 11-character pattern in any other URL; for a
\* URL that gives no id (a watch URL without v and a short link with an empty path
\* among them) it raises ValueError: no other exception, and no empty id.
C14_InvalidReference ==
    call.op = "extract_video_id" =>
        /\ ret.raised => ret.exc = "ValueError"
        /\ ~ret.raised => ret.value # ""
        /\ (call.url.hostname \in {"youtube.com", "www.youtube.com"} /\ call.url.path = "/watch"
            /\ call.url.v # "None") => ret = Ok(call.url.v)
        /\ (call.url.hostname = "youtu.be" /\ call.url.after_slash # "")
               => ret = Ok(call.url.after_slash)

\* C15: the clearing of is_monitoring is seen at the loop test only.  The task ends
\* normally from the loop test alone and with the flag cleared; no pass begins with
\* the flag cleared; a pass in whose broadcast of new_comments the flag is cleared
\* goes on to broadcast analytics_update and reaches its sleep (unless the task is
\* cancelled), and after the sleep the task ends.
C15_StopSeenBetweenCycles ==
    /\ [][(pc' = "done" /\ pc # "done") => (pc = "while" /\ ~is_monitoring)]_vars
    /\ [][(pc' = try_body[1] /\ pc # try_body[1]) => is_monitoring]_vars
    /\ (cycle.stopped_at = "new_comments" /\ pc = "gather" /\ gather.type = "new_comments")
           ~> (pc = "cancelled"
               \/ (pc = "sleep30" /\ cycle.aggregated
                   /\ cycle.sent = <<"new_comments", "analytics_update">>))
    /\ (~is_monitoring /\ pc \in {"sleep30", "sleep60"}) ~> (pc \in {"done", "cancelled"})

\* the flag was cleared during the broadcast of new_comments, and the pass has
\* broadcast analytics_update since and is at its sleep
C15_Witness ==
    /\ ~is_monitoring
    /\ cycle.stopped_at = "new_comments"
    /\ cycle.save = "ok" /\ cycle.aggregated
    /\ cycle.sent = <<"new_comments", "analytics_update">>
    /\ pc = "sleep30"


-----------------------------------------------------------------------------
\* C16: save_comments_to_db is idempotent per comment id.  The table never holds
\* two rows with one comment_id; after a save that committed, saving the same
\* comments again leaves the table as it is, and for every comment id of the list
\* the table holds the row of the last comment of the list with that id.
C16_UpsertIdempotent ==
    /\ \A i, j \in DOMAIN db : db[i].comment_id = db[j].comment_id => i = j
    /\ (call.op = "save_comments_to_db" /\ ~ret.raised /\ cfg.HAS_SQLITE) =>
          \A cs \in {scrape_comments(call.video_id, call.inp.max_comments,
                                     call.inp.api, call.inp.seed).value} :
              /\ UpsertAll(db, cs, call.video_id) = db
              /\ \A k \in DOMAIN cs :
                    (\A m \in (k + 1) .. Len(cs) : cs[m].comment_id # cs[k].comment_id)
                        => \E i \in DOMAIN db : db[i] = Upsert(<<>>, cs[k], call.video_id)[1]

\* the second save wrote two comment ids that the table held among the eleven of
\* the first save: eleven rows still, the two rewritten rows last
C16_Witness ==
    /\ call.op = "save_comments_to_db" /\ ~ret.raised /\ cfg.HAS_SQLITE
    /\ writes = 2 /\ call.n = 2 /\ Len(db) = 11
    /\ \A i \in DOMAIN db : db[i].video_id = call.video_id
    /\ \E cs \in {scrape_comments(call.video_id, call.inp.max_comments,
                                   call.inp.api, call.inp.seed).value} :
          /\ db[10] = Upsert(<<>>, cs[1], call.video_id)[1]
          /\ db[11] = Upsert(<<>>, cs[2], call.video_id)[1]


-----------------------------------------------------------------------------
-----------------------------------------------------------------------------
\* C18: a subscriber whose delivery failed because its connection is closed is
\* removed from the subscriber set, so that no later broadcast attempts delivery
\* to it: a broadcast that begins sends to none of the websockets whose send
\* failed in the broadcast before it.
C18_FailedSubscriberRemoved ==
    [][(pc' = "gather" /\ pc # "gather") => gather'.targets \cap gather.failed = {}]_vars


-----------------------------------------------------------------------------
\* C19: scrape_video_info and scrape_comments try their tiers in the fixed order
\* API (with a key and the client library), then page fetch / browser (with its
\* library), then the generator.  The tiers called are the first ones of that
\* order, every tier called before the last one failed, and the result is the
\* outcome of the last one called, which did not fail.
TierOrder(available, outcome) ==
    /\ ~ret.raised
    /\ Len(ret.tried) >= 1
    /\ Len(ret.tried) <= Len(available)
    /\ ret.tried = Prefix(available, Len(ret.tried))
    /\ \A i \in 1 .. (Len(ret.tried) - 1) : outcome[ret.tried[i]].raised
    /\ ret.tier = ret.tried[Len(ret.tried)]
    /\ \E last \in {outcome[ret.tier]} : ~last.raised /\ ret.value = last.value

C19_TiersInOrder ==
    /\ call.op = "scrape_video_info" =>
          TierOrder((IF cfg.api_key /\ cfg.HAS_YOUTUBE_API THEN <<"api">> ELSE <<>>)
                        \o (IF cfg.HAS_AIOHTTP THEN <<"web">> ELSE <<>>) \o <<"mock">>,
                    [t \in {"api", "web", "mock"} |->
                        CASE t = "api" -> _scrape_video_api(call.video_id, call.api)
                          [] t = "web" -> _scrape_video_web(call.video_id, call.web)
                          [] t = "mock" -> Ok(_generate_mock_video_info(call.video_id))])
    /\ call.op = "scrape_comments" =>
          TierOrder((IF cfg.api_key /\ cfg.HAS_YOUTUBE_API THEN <<"api">> ELSE <<>>)
                        \o (IF cfg.HAS_SELENIUM THEN <<"selenium">> ELSE <<>>) \o <<"mock">>,
                    [t \in {"api", "selenium", "mock"} |->
                        CASE t = "api" ->
                                 _scrape_comments_api(call.video_id, call.max_comments, call.api)
                          [] t = "selenium" ->
                                 _scrape_comments_selenium(call.video_id, call.max_comments,
                                                           call.seed)
                          [] t = "mock" ->
                                 Ok(_generate_mock_comments(call.video_id, call.max_comments,
                                                            call.seed))])

\* the API tier and the page fetch were called and failed, and the video is the
\* generator's
C19_Witness ==
    /\ call.op = "scrape_video_info" /\ call.api = "raise" /\ call.web = "raise"
    /\ ret.tried = <<"api", "web", "mock">> /\ ret.tier = "mock"
    /\ ret.value = _generate_mock_video_info(call.video_id)


-----------------------------------------------------------------------------
\* C20: a pass of the loop that raised nothing ends in the sleep of 30, a pass in
\* which a statement raised ends in the backoff sleep of 60, and no pass begins
\* unless one of these sleeps has ended since the pass before it.  The task is at
\* sleep(30) only with the whole pass done and at sleep(60) only with a pass cut
\* short by an exception; a statement of a pass is followed by the next one or by
\* the backoff sleep; the loop test is reached only from the end of a sleep (or
\* from the video_info broadcast, before the first pass) and a pass begins only
\* from the loop test.
C20_SleepBetweenCycles ==
    /\ [](pc = "sleep30" =>
            /\ cycle.entered /\ cycle.save = "ok" /\ cycle.aggregated
            /\ cycle.sent = <<"new_comments", "analytics_update">>)
    /\ [](pc = "sleep60" =>
            /\ cycle.entered /\ cycle.sent = <<>>
            /\ (cycle.save = "raised" \/ (cycle.save = "ok" /\ ~cycle.aggregated)))
    /\ [][(cycle.entered /\ pc' # pc
             /\ pc \in {"scrape_comments", "save_comments_to_db", "get_sentiment_analytics"})
          => pc' \in {Following(pc), "sleep60"}]_vars
    /\ [][(pc' = "while" /\ pc # "while")
          => (pc \in {"sleep30", "sleep60"} \/ (~cycle.entered /\ cycle.slept = "none"))]_vars
    /\ [][(pc' = try_body[1] /\ pc # try_body[1])
          => (pc = "while"
              /\ (cycle.slept \in {"sleep30", "sleep60"} \/ ~cycle.entered))]_vars

\* a pass failed and slept 60, and the pass after it was clean and is at its sleep
\* of 30
C20_Witness ==
    /\ pc = "sleep30"
    /\ cycle.slept = "sleep60"
    /\ cycle.save = "ok" /\ cycle.aggregated
    /\ cycle.sent = <<"new_comments", "analytics_update">>


-----------------------------------------------------------------------------
\* C21: in every pass the steps run in the order acquire, upsert, aggregate,
\* broadcast.  The save runs on comments acquired in the pass, the analytics are
\* computed after the save has committed, and nothing is broadcast before the
\* analytics are computed.  When the analytics_update broadcast begins, the table
\* holds a row for every comment acquired in the pass and the analytics are those
\* of that table; when the new_comments broadcast begins, the comments of the pass
\* are acquired and saved, and its data comments[-5:] are the last (at most 5) of
\* them.
C21_CycleStepOrder ==
    /\ cycle.save # "none" => cycle.acquired
    /\ cycle.aggregated => cycle.save = "ok"
    /\ (cycle.entered /\ cycle.sent # <<>>) => cycle.aggregated
    /\ (cycle.entered /\ ~cycle.acquired) => comments = <<>>
    /\ pc = "broadcast_new_comments" =>
          /\ cycle.acquired /\ cycle.save = "ok" /\ cycle.aggregated
          /\ \E data \in {Suffix(comments, 5)} :
                /\ Len(data) = Min(5, Len(comments))
                /\ \A j \in DOMAIN data : data[j] = comments[Len(comments) - Len(data) + j]
    /\ pc = "broadcast_analytics_update" =>
          /\ cycle.acquired /\ cycle.save = "ok"
          /\ \A k \in DOMAIN comments :
                \E row \in {Upsert(<<>>, comments[k], current_video_id)[1]} :
                    \E i \in DOMAIN db : db[i] = row
          /\ \E tie \in Ties :
                analytics = get_sentiment_analytics(db, current_video_id, FALSE, tie, 0).value

\* the second pass of a monitoring over the API is about to broadcast the analytics
\* of a table that holds the comments of the pass, replies among them
C21_Witness ==
    /\ pc = "broadcast_analytics_update"
    /\ cycle.slept = "sleep30"
    /\ Len(comments) > 2
    /\ \E k \in DOMAIN comments : comments[k].is_reply
    /\ analytics.total_comments < Len(comments)


-----------------------------------------------------------------------------
\* C22: the time_trend of get_sentiment_analytics partitions the n rows read
\* (newest first) into consecutive batches of ceil(n / 10) rows: batch b holds
\* the rows (b - 1) * size + 1 .. b * size, so that every row is in exactly one
\* batch, and entry b reports the timestamp of the first row of batch b and the
\* mean score of the batch.
C22_TrendPartitions ==
    (call.op = "get_sentiment_analytics" /\ cfg.HAS_SQLITE /\ ~call.dbfail /\ call.rows > 0) =>
        /\ ~ret.raised
        /\ \E tie \in Ties :
              \E rows \in {QueryTopLevel(db, call.video_id, tie)} :
                  \E size \in {(Len(rows) + 9) \div 10} :
                      /\ Len(ret.value.time_trend) = (Len(rows) + size - 1) \div size
                      /\ \A b \in DOMAIN ret.value.time_trend :
                            ret.value.time_trend[b] =
                                Bucket(SubSeq(rows, (b - 1) * size + 1,
                                              Min(b * size, Len(rows))))


-----------------------------------------------------------------------------
\* C23: without TextBlob, with p words of the cleaned text in the positive
\* keywords and n in the negative ones: p > n gives the label positive and the
\* score min(0.8, 0.3 + 0.1 (p - n)); n > p gives negative and
\* max(-0.8, -0.3 - 0.1 (n - p)); p = n (the empty text too) gives neutral and 0;
\* the subjectivity is 0.5 in every case.
C23_KeywordScore ==
    (call.op = "analyze_sentiment" /\ ~cfg.HAS_TEXTBLOB) =>
        \E words \in {_clean_text(call.text)} :
            \E p \in {Cardinality({i \in DOMAIN words : words[i] \in political_keywords.positive})},
               n \in {Cardinality({i \in DOMAIN words : words[i] \in political_keywords.negative})} :
                /\ ~ret.raised
                /\ ret.value.subjectivity = Rat(1, 2)
                /\ p > n => /\ ret.value.label = "positive"
                            /\ ret.value.score
                                   = (IF 3 + (p - n) < 8 THEN Rat(3 + (p - n), 10) ELSE Rat(8, 10))
                /\ n > p => /\ ret.value.label = "negative"
                            /\ ret.value.score
                                   = (IF 3 + (n - p) < 8 THEN Rat(-3 - (n - p), 10) ELSE Rat(-8, 10))
                /\ p = n => /\ ret.value.label = "neutral"
                            /\ ret.value.score = Rat(0, 1)

\* six negative keywords and none positive: the score is held at -0.8
C23_Witness ==
    /\ call.op = "analyze_sentiment" /\ ~cfg.HAS_TEXTBLOB
    /\ call.text = KeywordText(3)
    /\ ret.value.label = "negative"
    /\ ret.value.score = Rat(-8, 10)
    /\ ret.value.subjectivity = Rat(1, 2)


-----------------------------------------------------------------------------
\* C24: the generator returns the curated comments first, in the order of their
\* table (30 texts) and verbatim, then the template comments in the order in which
\* they were made, and never more than max_comments comments: the i-th comment
\* has the id of index i - 1, the i-th curated text for i up to
\* min(30, max_comments), and beyond that is the (i - 30)-th template comment made.
C24_CuratedThenTemplates ==
    (call.op = "scrape_comments" /\ ret.tier # "api") =>
        /\ NumCurated = 30
        /\ ~ret.raised
        /\ Len(ret.value) <= call.max_comments
        /\ \A i \in DOMAIN ret.value :
              /\ ret.value[i].comment_id = <<"mock", call.video_id, i - 1>>
              /\ i <= Min(30, call.max_comments) => ret.value[i].text = CuratedText(i)
              /\ i > 30 => ret.value[i] = MockTemplate(call.video_id, 30, i - 31, call.seed)

\* the generator made every curated comment and the most template comments of the
\* model, with the last random source
C24_Witness ==
    /\ call.op = "scrape_comments" /\ ret.tier = "mock" /\ ret.tried = <<"mock">>
    /\ call.seed = MaxSeed
    /\ call.max_comments = NumCurated + MaxExtra
    /\ ret.value[30].text = CuratedText(30)
    /\ ret.value[NumCurated + MaxExtra].text.kind = "template"
    /\ ret.value[NumCurated + MaxExtra].comment_id
           = <<"mock", call.video_id, NumCurated + MaxExtra - 1>>


-----------------------------------------------------------------------------
\* the snapshot fields that do not depend on the order of the rows read
OrderFree(snapshot) ==
    [f \in {"total_comments", "avg_sentiment", "weighted_sentiment",
            "sentiment_distribution", "positive_percentage", "negative_percentage",
            "neutral_percentage", "engagement_score"} |-> snapshot[f]]

\* saves that write no top-level comment of the video: a reply of the video with an
\* id of its own, generated comments of another video, a thread of another video
FrameSaves(video_id) ==
    {[cs |-> <<ApiReply(video_id, 900, <<"api", video_id, 0>>)>>, video_id |-> video_id]}
    \cup {[cs |-> _generate_mock_comments(other, 2, MaxSeed), video_id |-> other] :
             other \in VideoIds \ {video_id}}
    \cup {[cs |-> ApiThread(other, 900, 1), video_id |-> other] :
             other \in VideoIds \ {video_id}}

\* the snapshot counts the top-level rows of the video and is left unchanged by the
\* saves of FrameSaves
DependsOnTopLevelOnly ==
    /\ ret.value.total_comments
           = Len(SelectSeq(db, LAMBDA r : r.video_id = call.video_id /\ ~r.is_reply))
    /\ \A save \in FrameSaves(call.video_id) :
          \E after \in {get_sentiment_analytics(UpsertAll(db, save.cs, save.video_id),
                                                call.video_id, FALSE, "rowid", call.seed)} :
              ~after.raised /\ OrderFree(after.value) = OrderFree(ret.value)

-----------------------------------------------------------------------------
\* C26: in every list returned by the API tier, cut to max_comments or not, a reply
\* has is_reply set and the parent_id of a top-level comment that comes before it
\* in the list, and a top-level comment has is_reply unset and no parent_id.
C26_RepliesFollowParent ==
    (call.op = "scrape_comments" /\ ret.tier = "api") =>
        \A i \in DOMAIN ret.value :
            IF ret.value[i].is_reply
            THEN /\ ret.value[i].parent_id # None
                 /\ \E j \in 1 .. (i - 1) :
                       /\ ~ret.value[j].is_reply
                       /\ ret.value[j].comment_id = ret.value[i].parent_id
            ELSE ret.value[i].parent_id = None

\* the slice cut the second thread of the response after its top-level comment:
\* the list ends with the first thread's reply and the second thread's comment
C26_Witness ==
    /\ call.op = "scrape_comments" /\ ret.tier = "api"
    /\ call.api.threads = 2 /\ call.api.replies = 1
    /\ call.max_comments = 3 /\ Len(ret.value) = 3
    /\ ret.value[2].is_reply /\ ret.value[2].parent_id = ret.value[1].comment_id
    /\ ~ret.value[3].is_reply


-----------------------------------------------------------------------------
-----------------------------------------------------------------------------
\* C28: in a pass that is not cancelled, new_comments is broadcast if and only if
\* analytics_update is.  A pass at its sleep has broadcast both or neither; a pass
\* cut short by an exception (at the backoff sleep) has broadcast neither; and
\* once new_comments is broadcast the pass goes on to broadcast analytics_update
\* and to sleep(30) with nothing raised between the two.
C28_BothBroadcastsOrNeither ==
    /\ []((cycle.entered /\ pc \in {"sleep30", "sleep60", "while", "done"}) =>
             cycle.sent \in {<<>>, <<"new_comments", "analytics_update">>})
    /\ [](pc = "sleep60" => cycle.sent = <<>>)
    /\ []((cycle.entered /\ cycle.sent = <<"new_comments">>)
             => pc \in {"gather", "broadcast_analytics_update"})
    /\ [][(cycle.entered /\ cycle.sent = <<"new_comments">> /\ pc' # pc)
          => pc' \in {"gather", "broadcast_analytics_update", "sleep30", "cancelled"}]_vars
    /\ [][(cycle.entered /\ cycle.sent = <<"new_comments">>
             /\ cycle'.sent # cycle.sent /\ pc' # "cancelled")
          => cycle'.sent = <<"new_comments", "analytics_update">>]_vars
    /\ (cycle.entered /\ cycle.sent = <<"new_comments">>)
           ~> (pc = "cancelled" \/ cycle.sent = <<"new_comments", "analytics_update">>)

\* the send of new_comments to the only subscriber failed, and analytics_update was
\* broadcast all the same
C28_Witness ==
    /\ cycle.entered /\ pc = "sleep30"
    /\ cycle.sent = <<"new_comments", "analytics_update">>
    /\ gather.type = "analytics_update" /\ gather.failed # {}
    /\ cycle.stopped_at = "none"


-----------------------------------------------------------------------------
\* C29: the recipients of a broadcast_update call are the subscribers in the set
\* when the call begins.  While its sends are pending the recipients do not change,
\* whatever connects or disconnects; the subscriber set changes only by the
\* websocket that connects or whose handler ends; and the call returns with every
\* recipient sent to or failed, and nothing raised.
C29_RecipientsFixedAtCall ==
    /\ [][(pc' = "gather" /\ pc # "gather") => gather'.targets = clients]_vars
    /\ [][(pc = "gather" /\ pc' = "gather") => gather'.targets = gather.targets]_vars
    /\ [][(pc = "gather" /\ clients' # clients) =>
             \E w \in Sockets :
                 \/ /\ sockets[w] = "new" /\ sockets'[w] = "open"
                    /\ clients' = clients \cup {w}
                 \/ /\ sockets[w] = "closed" /\ w \in clients
                    /\ clients' = clients \ {w}]_vars
    /\ [](pc = "gather" =>
             /\ gather.ok \cup gather.failed \cup gather.pending = gather.targets
             /\ gather.ok \cap gather.failed = {})
    /\ []((pc = "gather" /\ gather.pending = {}) => ~gather.raised)
    /\ [](clients \subseteq {w \in Sockets : sockets[w] # "new"})

\* while the send to the first websocket was pending it closed and was removed and
\* the second websocket connected: the broadcast has ended with its one recipient
\* failed, and the set holds the second websocket alone
C29_Witness ==
    /\ gather.returned
    /\ gather.targets = {1} /\ gather.failed = {1}
    /\ clients = {2}
    /\ sockets = <<"closed", "open">>


-----------------------------------------------------------------------------
\* C30: video_info is sent only to the subscribers in the set when start_monitoring
\* makes its first broadcast, and never again.  The video_info broadcast is made
\* once, before the loop, to the set of that moment (to nobody when the set is
\* empty); a send of video_info goes only to a recipient of that broadcast; the
\* broadcasts of the loop are of new_comments and analytics_update and go to the
\* set of their own moment, the later subscribers included.
C30_VideoInfoOnce ==
    /\ [][pc' = "scrape_video_info" => pc \in {"idle", "scrape_video_info"}]_vars
    /\ [][pc' = "broadcast_video_info" => pc \in {"scrape_video_info", "broadcast_video_info"}]_vars
    /\ [][pc # "idle" => pc' # "idle"]_vars
    /\ [](cycle.entered => (gather.type # "video_info" /\ pc # "broadcast_video_info"))
    /\ [][(pc = "broadcast_video_info" /\ pc' # pc) =>
             IF clients = {} THEN pc' = "while" /\ gather' = NoGather
             ELSE pc' = "gather" /\ gather'.type = "video_info" /\ gather'.targets = clients]_vars
    /\ [][(gather'.type = "video_info" /\ gather'.ok # gather.ok) =>
             /\ gather.type = "video_info"
             /\ gather'.ok \subseteq gather.targets
             /\ gather'.targets = gather.targets]_vars
    /\ [][(cycle.entered /\ pc' = "gather" /\ pc # "gather") =>
             /\ gather'.type \in {"new_comments", "analytics_update"}
             /\ gather'.targets = clients]_vars
    /\ [](Len(SelectSeq(log, LAMBDA m : m = "video_info")) <= 1)

\* the first broadcast has been made to the one subscriber of its moment and the
\* loop is about to begin; the second websocket connected while it was pending and
\* was sent nothing
C30_Witness ==
    /\ pc = "while" /\ ~cycle.entered
    /\ gather.type = "video_info" /\ gather.returned
    /\ gather.targets = {1} /\ gather.ok = {1}
    /\ clients = {1, 2}
    /\ log = <<"video_info">>


-----------------------------------------------------------------------------
\* C31: start_monitoring called with a URL that carries no id raises to its caller
\* and leaves the server as it was: current_video_id and is_monitoring keep their
\* values, no comments are acquired, no row is written and no message is broadcast.
C31_UnparsableUrlNoEffect ==
    (call.op = "start_monitoring" /\ ~HasId(call.url)) =>
        /\ pc \in {"idle", "raised"}
        /\ current_video_id = "None"
        /\ ~is_monitoring
        /\ ~cycle.acquired /\ comments = <<>>
        /\ db = <<>> /\ writes = 0
        /\ log = <<>> /\ gather = NoGather

=============================================================================
